---- MODULE Spec2Model ----
(***************************************************************************)
(* Model of mythra: the concurrent analysis pipeline of                    *)
(* mythra/analyzer.py (run_analysis, analyze_single_file), the invoker and *)
(* the router of mythra/llm.py (call_llm_api,                              *)
(* get_client_details_for_model, parse_llm_json_output) and the display    *)
(* sort of mythra/display.py.                                              *)
(***************************************************************************)
EXTENDS Integers, Sequences, FiniteSets, TLC

VARIABLES
    model_name,           \* run_analysis argument: the model identifier
    api_keys,             \* run_analysis arguments: the three key overrides
    env_keys,             \* config.DEFAULT_*_API_KEY, read from the environment
    files_to_analyze,     \* result of find_solidity_files(target_path)
    contents,             \* what read_text gave for each file read so far
    run_pc,               \* position of run_analysis
    idx,                  \* loop index of the read loop / the result loop
    all_results,          \* dict path -> {"optimizations": [...]}, insertion order
    errors_occurred,      \* dict path -> reason, insertion order
    skipped_files_count,
    file_paths_for_tasks, \* paths of the created coroutines, in creation order
    tasks,                \* the coroutines' arguments, in creation order
    task,                 \* state of every dispatched coroutine
    settle_order,         \* indices of the tasks in the order they finished
    results,              \* what asyncio.gather returned
    displayed,            \* paths handed to display_results, in call order
    output_data,          \* the dict handed to json.dump
    exit_code,            \* code of a typer.Exit leaving run_analysis, -1: none
    cli                   \* the locals of cli.analyze, the other command

vars == <<cli, model_name, api_keys, env_keys, files_to_analyze, contents, run_pc, idx, all_results,
          errors_occurred, skipped_files_count, file_paths_for_tasks, tasks,
          task, settle_order, results, displayed, output_data, exit_code>>

----------------------------------------------------------------------------
(* Bounds of the model *)

MaxFiles == 2          \* longest list find_solidity_files returns
MaxSuggestions == 3    \* longest suggestion list drawn for display_results
MaxItems == 2          \* longest JSON list drawn for parse_llm_json_output
MaxLists == 2          \* most JSON lists in one response text
MaxNameTokens == 2     \* longest model name drawn for the router, in tokens

(* Program constants *)

LLM_MAX_RETRIES == 2
LLM_RETRY_DELAY_BASE == 2
\* sys.maxsize; TLC integers are 32 bits wide, so the model uses the largest
\* of those: every line number of the model is far below it.
maxsize == 2147483647

----------------------------------------------------------------------------
(* Python values *)

None == [t |-> "null", v |-> 0]
PyInt(n) == [t |-> "int", v |-> n]
PyFloat(n) == [t |-> "float", v |-> n]      \* the float n.0
PyBool(b) == [t |-> "bool", v |-> b]
PyStr(s) == [t |-> "str", v |-> s]
PyList(l) == [t |-> "list", v |-> l]
PyDict(d) == [t |-> "dict", v |-> d]

RECURSIVE Pow2(_)
Pow2(n) == IF n = 0 THEN 1 ELSE 2 * Pow2(n - 1)

SeqToSet(s) == {s[i] : i \in 1..Len(s)}

\* Sequences without repetition over S, of length at most n.
DistinctSeqs(S, n) ==
    {s \in UNION {[1..k -> S] : k \in 0..n} :
        \A i, j \in 1..Len(s) : i # j => s[i] # s[j]}

----------------------------------------------------------------------------
(* Paths and file contents.  A string is the sequence of its code points;  *)
(* 32 is the space, 10 the line feed.                                       *)

Paths == {<<97>>, <<97, 97>>, <<98>>}

SPACE == 32
NEWLINE == 10
Whitespace == {SPACE, NEWLINE}
Texts == {<<>>, <<NEWLINE, SPACE>>, <<SPACE, 120, NEWLINE>>}

\* str.strip(): drop the leading and the trailing whitespace.
RECURSIVE LStrip(_)
LStrip(s) == IF s # <<>> /\ Head(s) \in Whitespace THEN LStrip(Tail(s)) ELSE s
RECURSIVE RStrip(_)
RStrip(s) ==
    IF s # <<>> /\ s[Len(s)] \in Whitespace THEN RStrip(SubSeq(s, 1, Len(s) - 1)) ELSE s
Strip(s) == RStrip(LStrip(s))

\* Path.read_text(): the text of the file, or an exception.
ReadOutcomes == [ok : {TRUE}, text : Texts] \cup {[ok |-> FALSE, text |-> <<>>]}

\* Order of Python strings (and so of the (key, value) tuples of dict.items()
\* with distinct keys): lexicographic by code point.
RECURSIVE StrLess(_, _)
StrLess(a, b) ==
    IF b = <<>> THEN FALSE
    ELSE IF a = <<>> THEN TRUE
    ELSE IF Head(a) # Head(b) THEN Head(a) < Head(b)
    ELSE StrLess(Tail(a), Tail(b))

----------------------------------------------------------------------------
(* Python dicts keep insertion order: a dict is the sequence of its         *)
(* [key, val] entries.                                                      *)

DictKeys(d) == {d[i].key : i \in 1..Len(d)}
DictGet(d, k) == (CHOOSE e \in SeqToSet(d) : e.key = k).val

\* d[k] = v: replaces the value in place, or appends a new entry.
DictSet(d, k, v) ==
    IF k \in DictKeys(d)
    THEN [i \in 1..Len(d) |-> IF d[i].key = k THEN [key |-> k, val |-> v] ELSE d[i]]
    ELSE Append(d, [key |-> k, val |-> v])

\* sorted(d.items()): a stable insertion sort on the keys.
RECURSIVE InsertByKey(_, _)
InsertByKey(e, s) ==
    IF s = <<>> THEN <<e>>
    ELSE IF StrLess(e.key, Head(s).key) THEN <<e>> \o s
    ELSE <<Head(s)>> \o InsertByKey(e, Tail(s))
RECURSIVE SortedItems(_)
SortedItems(d) ==
    IF d = <<>> THEN <<>>
    ELSE InsertByKey(d[Len(d)], SortedItems(SubSeq(d, 1, Len(d) - 1)))

----------------------------------------------------------------------------
(* Provider router: get_client_details_for_model.  A model name is the     *)
(* sequence of its tokens; str.lower() works token by token.                *)

Tokens == {"gemini-", "gpt-", "claude-", "models/", "GPT-", "Models/", "x"}
TokLower(tok) ==
    CASE tok = "GPT-" -> "gpt-"
      [] tok = "Models/" -> "models/"
      [] OTHER -> tok
Lower(name) == [i \in 1..Len(name) |-> TokLower(name[i])]

\* pat in name
Contains(name, pat) ==
    \E i \in 0..(Len(name) - Len(pat)) : SubSeq(name, i + 1, i + Len(pat)) = pat
\* Mutant: the prefix is looked for in the lowered name.
StartsWithIgnoringCase(name, pat) ==
    Len(pat) <= Len(name) /\ SubSeq(Lower(name), 1, Len(pat)) = pat

\* name.startswith(pat)
StartsWith(name, pat) ==
    Len(pat) <= Len(name) /\ SubSeq(name, 1, Len(pat)) = pat

GEMINI_MODELS == {<<"gemini-">>, <<"models/", "gemini-">>}
OPENAI_MODELS == {<<"gpt-">>}
ANTHROPIC_MODELS == {<<"claude-">>}

\* A key is a string; NoKey stands for None.  Both None and "" are falsy.
NoKey == "<None>"
Falsy(k) == k \in {NoKey, ""}
\* Mutant: the second operand is preferred.
OrSecond(a, b) == IF Falsy(b) THEN a ELSE b

\* a or b
Or(a, b) == IF Falsy(a) THEN b ELSE a

\* Mutant: the OpenAI patterns are tried before the Gemini patterns.
get_client_details_openai_first(name, openai_key, google_key, anthropic_key, env) ==
    LET lower == Lower(name)
        client_type ==
            IF \E p \in OPENAI_MODELS : Contains(lower, p) THEN "openai"
            ELSE IF \E p \in GEMINI_MODELS : Contains(lower, p) THEN "gemini"
            ELSE IF \E p \in ANTHROPIC_MODELS : Contains(lower, p) THEN "anthropic"
            ELSE "<None>"
        key_to_use ==
            CASE client_type = "gemini" -> Or(google_key, env.google)
              [] client_type = "openai" -> Or(openai_key, env.openai)
              [] client_type = "anthropic" -> Or(anthropic_key, env.anthropic)
              [] OTHER -> NoKey
    IN  IF client_type = "<None>" \/ Falsy(key_to_use)
        THEN [raised |-> "ValueError", client_type |-> client_type,
              api_key |-> NoKey, model_name |-> name]
        ELSE [raised |-> "", client_type |-> client_type,
              api_key |-> key_to_use, model_name |-> name]

\* The tuple returned, or the ValueError raised.
get_client_details_for_model(name, openai_key, google_key, anthropic_key, env) ==
    LET lower == Lower(name)
        client_type ==
            IF \E p \in GEMINI_MODELS : Contains(lower, p) THEN "gemini"
            ELSE IF \E p \in OPENAI_MODELS : Contains(lower, p) THEN "openai"
            ELSE IF \E p \in ANTHROPIC_MODELS : Contains(lower, p) THEN "anthropic"
            ELSE "<None>"
        key_to_use ==
            CASE client_type = "gemini" -> Or(google_key, env.google)
              [] client_type = "openai" -> Or(openai_key, env.openai)
              [] client_type = "anthropic" -> Or(anthropic_key, env.anthropic)
              [] OTHER -> NoKey
        validated_model_name ==
            IF client_type = "gemini" /\ ~StartsWith(name, <<"models/">>)
            THEN <<"models/">> \o name
            ELSE name
    IN  IF client_type = "<None>"
        THEN [raised |-> "ValueError", client_type |-> "<None>",
              api_key |-> NoKey, model_name |-> name]
        ELSE IF Falsy(key_to_use)
        THEN [raised |-> "ValueError", client_type |-> client_type,
              api_key |-> NoKey, model_name |-> name]
        ELSE [raised |-> "", client_type |-> client_type,
              api_key |-> key_to_use, model_name |-> validated_model_name]

----------------------------------------------------------------------------
(* Exceptions.  Bases gives the direct base classes in openai, anthropic,   *)
(* google.api_core, asyncio and click (typer.Exit is click's Exit, a        *)
(* RuntimeError); an except clause catches the instances of the classes it  *)
(* lists, subclasses included.                                              *)

Bases(c) ==
    CASE c \in {"OpenAIRateLimitError", "OpenAIBadRequestError",
                "OpenAIAuthenticationError"} -> {"OpenAIAPIStatusError"}
      [] c \in {"OpenAIAPIStatusError", "OpenAIAPIConnectionError"} -> {"OpenAIAPIError"}
      [] c \in {"AnthropicRateLimitError", "AnthropicBadRequestError",
                "AnthropicAuthenticationError"} -> {"AnthropicAPIStatusError"}
      [] c \in {"AnthropicAPIStatusError", "AnthropicAPIConnectionError"} ->
             {"AnthropicAPIError"}
      [] c \in {"GeminiResourceExhausted", "GeminiNotFound",
                "GeminiPermissionDenied"} -> {"GeminiClientError"}
      [] c = "GeminiClientError" -> {"GeminiAPIError"}
      [] c \in {"OpenAIAPIError", "AnthropicAPIError", "GeminiAPIError",
                "TimeoutError", "ValueError", "RuntimeError"} -> {"Exception"}
      [] c = "Exit" -> {"RuntimeError"}
      [] OTHER -> {}

RECURSIVE Ancestors(_)
Ancestors(c) == {c} \cup UNION {Ancestors(b) : b \in Bases(c)}

\* isinstance(e, classes)
IsInstance(e, classes) == Ancestors(e) \cap classes # {}

retryable_exceptions ==
    {"OpenAIRateLimitError", "OpenAIAPIError", "OpenAIAPIConnectionError",
     "GeminiResourceExhausted", "GeminiAPIError",
     "AnthropicRateLimitError", "AnthropicAPIError", "AnthropicAPIConnectionError",
     "TimeoutError"}
auth_exceptions ==
    {"OpenAIAuthenticationError", "GeminiPermissionDenied",
     "AnthropicAuthenticationError"}
bad_request_exceptions ==
    {"OpenAIBadRequestError", "GeminiClientError", "GeminiNotFound",
     "AnthropicBadRequestError"}


----------------------------------------------------------------------------
(* Response extractor: parse_llm_json_output.  A response text is the      *)
(* sequence of its segments: a JSON document written bare ("json"), a JSON  *)
(* document inside a ```json fence ("fence"), or prose without brackets     *)
(* ("prose").  JSON values are the tagged Python values above; a dict is a  *)
(* function from its keys.                                                  *)

Seg(kind, val) == [seg |-> kind, val |-> val]
Prose == Seg("prose", None)

\* json.loads(text): the whole text must be one JSON document.
JsonLoadsOk(text) == Len(text) = 1 /\ text[1].seg = "json"

\* The characters of a text that matter to json_pattern, as tokens: "F" a run
\* of three backticks, "J" the tag json, "W" whitespace, "O" and "C" the two
\* square brackets, "X" anything else.  A bracket that opens or closes a JSON
\* list (not one inside a string) is real, and the opening one carries the
\* list.
Tok(c) == [c |-> c, real |-> FALSE, val |-> None]
Open(v) == [c |-> "O", real |-> TRUE, val |-> v]
Close == [c |-> "C", real |-> TRUE, val |-> None]

\* The strings the model writes into a field that hold brackets or backticks:
\* an index, an index inside an index, and an index between two fences.
StrTokens(str) ==
    CASE str = "a[i]" -> <<Tok("X"), Tok("O"), Tok("X"), Tok("C")>>
      [] str = "m[a[i]]" ->
             <<Tok("X"), Tok("O"), Tok("X"), Tok("O"), Tok("X"), Tok("C"), Tok("C")>>
      [] str = "<fence>a[i]<fence>" ->
             <<Tok("F"), Tok("X"), Tok("O"), Tok("X"), Tok("C"), Tok("F")>>
      [] OTHER -> <<Tok("X")>>

\* The keys of a JSON object in the order they are written.
KeyOrder ==
    <<"optimizations", "suggestions", "description", "suggested_change", "safety_rationale",
      "gas_saved_estimate", "start_line", "end_line">>

RECURSIVE RenderVal(_)
RECURSIVE RenderItems(_)
RECURSIVE RenderFields(_, _)
RenderItems(items) ==
    IF items = <<>> THEN <<>>
    ELSE RenderVal(Head(items))
            \o (IF Len(items) > 1 THEN <<Tok("X")>> ELSE <<>>)
            \o RenderItems(Tail(items))
RenderFields(d, k) ==
    IF k > Len(KeyOrder) THEN <<>>
    ELSE (IF KeyOrder[k] \in DOMAIN d THEN RenderVal(d[KeyOrder[k]]) ELSE <<>>)
            \o RenderFields(d, k + 1)
RenderVal(v) ==
    CASE v.t = "list" -> <<Open(v)>> \o RenderItems(v.v) \o <<Close>>
      [] v.t = "dict" -> <<Tok("X")>> \o RenderFields(v.v, 1) \o <<Tok("X")>>
      [] v.t = "str" -> StrTokens(v.v)
      [] OTHER -> <<Tok("X")>>

RenderSeg(s) ==
    CASE s.seg = "prose" -> <<Tok("X")>>
      [] s.seg = "fence" ->
             <<Tok("F"), Tok("J"), Tok("W")>> \o RenderVal(s.val) \o <<Tok("W"), Tok("F")>>
      [] OTHER -> RenderVal(s.val)

\* The text: its segments, a line feed between two of them.
RECURSIVE Render(_)
Render(text) ==
    IF text = <<>> THEN <<>>
    ELSE RenderSeg(Head(text))
            \o (IF Len(text) > 1 THEN <<Tok("W")>> ELSE <<>>)
            \o Render(Tail(text))

\* \s* from position p: the first position that holds no whitespace.
RECURSIVE SkipWs(_, _)
SkipWs(ts, p) ==
    IF p <= Len(ts) /\ ts[p].c = "W" THEN SkipWs(ts, p + 1) ELSE p

NoMatch == [ok |-> FALSE, from |-> 0, to |-> 0, end |-> 0]

\* Line 76, first alternative: a fence, the optional tag, \s*, the capture
\* (\[.*?\]), \s* and a fence; the lazy .*? stops at the first closing
\* bracket that whitespace and a fence follow.
FencedMatch(ts, p) ==
    IF ts[p].c # "F" THEN NoMatch
    ELSE LET a == IF p + 1 <= Len(ts) /\ ts[p + 1].c = "J" THEN p + 2 ELSE p + 1
             q == SkipWs(ts, a)
         IN  IF q > Len(ts) \/ ts[q].c # "O" THEN NoMatch
             ELSE LET ends == {j \in (q + 1)..Len(ts) :
                                  /\ ts[j].c = "C"
                                  /\ SkipWs(ts, j + 1) <= Len(ts)
                                  /\ ts[SkipWs(ts, j + 1)].c = "F"}
                  IN  IF ends = {} THEN NoMatch
                      ELSE LET j == CHOOSE x \in ends : \A y \in ends : x <= y
                           IN  [ok |-> TRUE, from |-> q, to |-> j,
                                end |-> SkipWs(ts, j + 1)]

\* (?:[^\[\]]|\[[^\[\]]*\])*\] from position k: the position of the closing
\* bracket, 0 when a bracket opens inside an inner pair of brackets.
RECURSIVE BareEnd(_, _, _)
BareEnd(ts, k, depth) ==
    IF k > Len(ts) THEN 0
    ELSE IF ts[k].c = "C"
    THEN IF depth = 0 THEN k ELSE BareEnd(ts, k + 1, 0)
    ELSE IF ts[k].c = "O"
    THEN IF depth = 0 THEN BareEnd(ts, k + 1, 1) ELSE 0
    ELSE BareEnd(ts, k + 1, depth)

\* Line 76, second alternative: no backtick before the capture and none
\* after it.
BareMatch(ts, p) ==
    IF ts[p].c # "O" \/ (p > 1 /\ ts[p - 1].c = "F") THEN NoMatch
    ELSE LET j == BareEnd(ts, p + 1, 0)
         IN  IF j = 0 \/ (j < Len(ts) /\ ts[j + 1].c = "F") THEN NoMatch
             ELSE [ok |-> TRUE, from |-> p, to |-> j, end |-> j]

\* Line 79, json_pattern.findall(): the matches from left to right, none
\* overlapping another.
RECURSIVE FindAll(_, _)
FindAll(ts, p) ==
    IF p > Len(ts) THEN <<>>
    ELSE LET m == IF FencedMatch(ts, p).ok THEN FencedMatch(ts, p)
                  ELSE BareMatch(ts, p)
         IN  IF m.ok THEN <<m>> \o FindAll(ts, m.end + 1)
             ELSE FindAll(ts, p + 1)

\* The bracket that closes the JSON list the real bracket at q opens.
RECURSIVE RealClose(_, _, _)
RealClose(ts, k, depth) ==
    IF k > Len(ts) THEN 0
    ELSE IF ts[k].real /\ ts[k].c = "C"
    THEN IF depth = 0 THEN k ELSE RealClose(ts, k + 1, depth - 1)
    ELSE IF ts[k].real /\ ts[k].c = "O" THEN RealClose(ts, k + 1, depth + 1)
    ELSE RealClose(ts, k + 1, depth)

\* Lines 88-111: json.loads(json_str) gives a list when the capture is the
\* text of a JSON list, and raises JSONDecodeError (the match is passed over)
\* when it ends before or after that list or begins inside a string.
LoadsCapture(ts, m) ==
    IF ts[m.from].real /\ RealClose(ts, m.from + 1, 0) = m.to
    THEN ts[m.from].val.v
    ELSE <<>>

RECURSIVE ExtendAll(_, _)
ExtendAll(ts, ms) ==
    IF ms = <<>> THEN <<>>
    ELSE LoadsCapture(ts, Head(ms)) \o ExtendAll(ts, Tail(ms))

\* Lines 71-115: the items of every list the pattern finds.
RegexCandidates(text) == ExtendAll(Render(text), FindAll(Render(text), 1))

\* Lines 54-115: the candidate items.
Candidates(text) ==
    IF JsonLoadsOk(text)
    THEN LET data == text[1].val
         IN  IF data.t = "list" THEN data.v
             ELSE IF data.t = "dict" /\ "optimizations" \in DOMAIN data.v
                     /\ data.v["optimizations"].t = "list"
             THEN data.v["optimizations"].v
             ELSE <<>>
    ELSE RegexCandidates(text)

\* Strings the model puts into the line fields, and str.isdigit() / int() on
\* them.  The superscript two is a digit for isdigit() and no literal for int().
DigitStrings == {"0", "7", "12", "superscript-2"}
StrInt(str) ==
    CASE str = "0" -> 0
      [] str = "7" -> 7
      [] str = "12" -> 12
      [] OTHER -> -1          \* int() raises ValueError

\* isinstance(x, (int, float, str)) and str(x).isdigit(): bool is an int and
\* prints as True/False, a float prints with a point or an exponent.
LineIsDigit(x) ==
    CASE x.t = "int" -> x.v >= 0
      [] x.t = "str" -> x.v \in DigitStrings
      [] OTHER -> FALSE
LineRaises(x) == LineIsDigit(x) /\ x.t = "str" /\ StrInt(x.v) < 0
\* Mutant: a line given as an integer is not kept.
CoerceLineOfStrings(x) ==
    IF LineIsDigit(x) /\ x.t = "str" THEN PyInt(StrInt(x.v)) ELSE None

CoerceLine(x) ==
    IF LineIsDigit(x)
    THEN PyInt(IF x.t = "int" THEN x.v ELSE StrInt(x.v))
    ELSE None

\* dict.get(key)
Get(d, k) == IF k \in DOMAIN d THEN d[k] ELSE None

ValidItem(item) ==
    /\ item.t = "dict"
    /\ "description" \in DOMAIN item.v
    /\ "suggested_change" \in DOMAIN item.v
    /\ "safety_rationale" \in DOMAIN item.v

\* Lines 126-139: both line fields are (re)written in the item.
ValidatedItem(d) ==
    ("start_line" :> CoerceLine(Get(d, "start_line")))
        @@ ("end_line" :> CoerceLine(Get(d, "end_line"))) @@ d

RECURSIVE ValidateAll(_)
ValidateAll(items) ==
    IF items = <<>> THEN [raised |-> "", val |-> <<>>]
    ELSE LET item == Head(items)
         IN  IF ~ValidItem(item) THEN ValidateAll(Tail(items))
             ELSE IF LineRaises(Get(item.v, "start_line"))
                     \/ LineRaises(Get(item.v, "end_line"))
             THEN [raised |-> "ValueError", val |-> <<>>]
             ELSE LET rest == ValidateAll(Tail(items))
                  IN  IF rest.raised # "" THEN rest
                      ELSE [raised |-> "",
                            val |-> <<ValidatedItem(item.v)>> \o rest.val]

\* The list of validated suggestion dicts, or the exception raised.
parse_llm_json_output(llm_output) == ValidateAll(Candidates(llm_output))

----------------------------------------------------------------------------
(* display_results: the in-place sort of line 79.                           *)

\* x or y for a line field that is None or an int
Truthy(x) == x.t = "int" /\ x.v # 0

\* key=lambda x: x.get("start_line") or sys.maxsize
SortKey(x) ==
    IF Truthy(Get(x, "start_line")) THEN Get(x, "start_line").v ELSE maxsize

\* list.sort(key=...) is stable: an element goes behind the elements whose key
\* is not greater.
RECURSIVE InsertSorted(_, _)
InsertSorted(x, s) ==
    IF s = <<>> THEN <<x>>
    ELSE IF SortKey(x) < SortKey(Head(s)) THEN <<x>> \o s
    ELSE <<Head(s)>> \o InsertSorted(x, Tail(s))
RECURSIVE SortByStartLine(_)
SortByStartLine(l) ==
    IF l = <<>> THEN <<>>
    ELSE InsertSorted(l[Len(l)], SortByStartLine(SubSeq(l, 1, Len(l) - 1)))

\* The list as display_results leaves it: an empty list returns before the sort.
display_results(optimizations) ==
    IF optimizations = <<>> THEN optimizations ELSE SortByStartLine(optimizations)


----------------------------------------------------------------------------
(* The backend.  A call ends with a text, with an envelope without text, or *)
(* with an exception of the provider's library, a timeout, or any other     *)
(* exception.                                                               *)

Suggestion(desc, start, end) ==
    PyDict([description |-> PyStr(desc), suggested_change |-> PyStr("change"),
            safety_rationale |-> PyStr("safe"), start_line |-> start,
            end_line |-> end])

\* The literal text [] .
TextEmptyList == <<Seg("json", PyList(<<>>))>>
\* Two suggestions, the later lines first, in a fence between prose.
TextTwoItems ==
    <<Prose,
      Seg("fence", PyList(<<Suggestion("d1", PyInt(12), None),
                            Suggestion("d2", PyStr("7"), PyInt(7))>>)),
      Prose>>
\* One suggestion whose start_line is a superscript digit.
TextBadLine == <<Seg("json", PyList(<<Suggestion("d3", PyStr("superscript-2"), None)>>))>>

ResponseTexts == {TextEmptyList, TextTwoItems}

\* Every class of the provider's library that call_llm_api names, and the
\* timeout; ValueError stands for an exception of no class it names.
LibraryErrors(client_type) ==
    CASE client_type = "openai" ->
             {"OpenAIRateLimitError", "OpenAIAPIError", "OpenAIAPIConnectionError",
              "OpenAIAuthenticationError", "OpenAIBadRequestError"}
      [] client_type = "gemini" ->
             {"GeminiResourceExhausted", "GeminiAPIError", "GeminiClientError",
              "GeminiPermissionDenied", "GeminiNotFound"}
      [] client_type = "anthropic" ->
             {"AnthropicRateLimitError", "AnthropicAPIError",
              "AnthropicAPIConnectionError", "AnthropicAuthenticationError",
              "AnthropicBadRequestError"}
      [] OTHER -> {}

\* The classes drawn when several tasks run: a rate limit and an
\* authentication denial (every class is drawn when one task runs alone).
CommonErrors(client_type) ==
    CASE client_type = "openai" ->
             {"OpenAIRateLimitError", "OpenAIAuthenticationError"}
      [] client_type = "gemini" ->
             {"GeminiResourceExhausted", "GeminiPermissionDenied"}
      [] client_type = "anthropic" ->
             {"AnthropicRateLimitError", "AnthropicAuthenticationError"}
      [] OTHER -> {}

Answers(texts, errors) ==
    [kind : {"text"}, text : texts, exc : {""}]
        \cup {[kind |-> "empty", text |-> <<>>, exc |-> ""]}
        \cup [kind : {"raise"}, text : {<<>>}, exc : errors]

BackendResponses(client_type) ==
    Answers(ResponseTexts, CommonErrors(client_type) \cup {"ValueError"})

AllBackendResponses(client_type) ==
    Answers(ResponseTexts \cup {TextBadLine},
            LibraryErrors(client_type) \cup {"TimeoutError", "ValueError"})

NoResponse == [kind |-> "", text |-> <<>>, exc |-> ""]

----------------------------------------------------------------------------
(* One dispatched coroutine: analyze_single_file, with call_llm_api inside. *)
(*   pc           "awaiting" the backend, "sleeping" before a retry, "done" *)
(*   attempt      the loop variable of call_llm_api                         *)
(*   calls        backend calls issued so far                               *)
(*   sleeps       the wait_time of every asyncio.sleep so far               *)
(*   last         the latest answer of the backend                          *)
(*   llm_response what call_llm_api returned: "", "text" or "None"          *)
(*   ret, exc     what the coroutine returned, or the exception it raised   *)

\* Mutant: the inner try retries every Exception.
IsRetryableWhateverClass(e) == IsInstance(e, {"Exception"})

\* Lines 346-359: the exception is one the inner try retries.
IsRetryable(e) == IsInstance(e, retryable_exceptions)

\* Lines 361-375: every other Exception ends in raise typer.Exit(code=1).
OuterHandler(e) ==
    IF IsInstance(e, auth_exceptions) THEN "Exit"
    ELSE IF IsInstance(e, bad_request_exceptions) THEN "Exit"
    ELSE IF IsInstance(e, {"Exception"}) THEN "Exit"
    ELSE e

\* Mutant: the delay does not grow with the attempt.
WaitTimeFlat(attempt) == LLM_RETRY_DELAY_BASE

\* Line 348: wait_time
WaitTime(attempt) == LLM_RETRY_DELAY_BASE * Pow2(attempt)

\* Mutant: one retry more than LLM_MAX_RETRIES.
MayRetryOnceMore(attempt) == attempt <= LLM_MAX_RETRIES

\* Line 347: another attempt follows
MayRetry(attempt) == attempt < LLM_MAX_RETRIES

\* Lines 70-82 of analyze_single_file, for what call_llm_api returned.
AfterLLM(t, r) ==
    IF r.kind = "text"
    THEN LET parsed == parse_llm_json_output(r.text)
         IN  IF parsed.raised # ""
             THEN [t EXCEPT !.pc = "done", !.llm_response = "text",
                            !.exc = parsed.raised]
             ELSE [t EXCEPT !.pc = "done", !.llm_response = "text",
                            !.ret = parsed.val]
    ELSE [t EXCEPT !.pc = "done", !.llm_response = "None", !.ret = <<>>]

\* Mutant: an envelope without text is retried like a retryable exception.
OnResponseRetryingEmpty(t, r) ==
    LET t1 == [t EXCEPT !.last = r]
    IN  CASE r.kind = "text" -> AfterLLM(t1, r)
          [] r.kind = "empty" \/ IsRetryable(r.exc) ->
             IF MayRetry(t.attempt)
             THEN [t1 EXCEPT !.pc = "sleeping",
                             !.sleeps = Append(@, WaitTime(t.attempt))]
             ELSE AfterLLM(t1, r)
          [] OTHER -> [t1 EXCEPT !.pc = "done", !.exc = OuterHandler(r.exc)]

\* The coroutine from the answer r of the backend to its next suspension.
OnResponse(t, r) ==
    LET t1 == [t EXCEPT !.last = r]
    IN  CASE r.kind = "text" -> AfterLLM(t1, r)
          [] r.kind = "empty" -> AfterLLM(t1, r)
          [] OTHER ->
             IF IsRetryable(r.exc)
             THEN IF MayRetry(t.attempt)
                  THEN [t1 EXCEPT !.pc = "sleeping",
                                  !.sleeps = Append(@, WaitTime(t.attempt))]
                  ELSE AfterLLM(t1, r)
             ELSE [t1 EXCEPT !.pc = "done", !.exc = OuterHandler(r.exc)]

\* Mutant: the backend is called although the router raised.
StartTaskCallingAnyway(name, keys, env) ==
    LET d == get_client_details_for_model(name, keys.openai, keys.google,
                                          keys.anthropic, env)
    IN  [pc |-> "awaiting", client_type |-> d.client_type,
         api_key |-> d.api_key, model_name |-> d.model_name,
         attempt |-> 0, calls |-> 1, sleeps |-> <<>>, last |-> NoResponse,
         llm_response |-> "", ret |-> <<>>, exc |-> ""]

\* The coroutine from its start to its first suspension (lines 54-68 of
\* analyze_single_file and the first backend call of call_llm_api).
StartTask(name, keys, env) ==
    LET d == get_client_details_for_model(name, keys.openai, keys.google,
                                          keys.anthropic, env)
        t0 == [pc |-> "awaiting", client_type |-> d.client_type,
               api_key |-> d.api_key, model_name |-> d.model_name,
               attempt |-> 0, calls |-> 0, sleeps |-> <<>>, last |-> NoResponse,
               llm_response |-> "", ret |-> <<>>, exc |-> ""]
    IN  IF d.raised # ""
        THEN [t0 EXCEPT !.pc = "done", !.exc = d.raised]
        ELSE [t0 EXCEPT !.calls = 1]

Done(i) == task[i].pc = "done"
AllDone == \A i \in 1..Len(task) : Done(i)


----------------------------------------------------------------------------
(* run_analysis                                                             *)

\* A run of several tasks is drawn for one provider and for a name no provider
\* matches; CallModelNames are the names drawn for a run of one task.
RunModelNames == {<<"gpt-", "x">>, <<"x">>}
CallModelNames ==
    {<<"gpt-", "x">>, <<"GPT-", "x">>, <<"gemini-", "x">>,
     <<"models/", "gemini-", "x">>, <<"claude-", "x">>}
AllKeys == [openai |-> "sk-o", google |-> "sk-g", anthropic |-> "sk-a"]
NoKeys == [openai |-> NoKey, google |-> NoKey, anthropic |-> NoKey]

\* cli.analyze is not running.
NoCommand ==
    [pc |-> "idle", solidity_files_paths |-> <<>>, contents |-> <<>>, idx |-> 0,
     contracts_data |-> <<>>, files_to_process_paths |-> <<>>, requests |-> <<>>,
     response |-> [kind |-> "", status_code |-> 0, body |-> None],
     error_occurred |-> FALSE, analysis_results |-> <<>>, displayed |-> FALSE,
     output_file |-> FALSE, output_data |-> <<>>, exit_code |-> -1]

EmptyRun ==
    /\ files_to_analyze = <<>>
    /\ contents = <<>>
    /\ run_pc = "start"
    /\ idx = 0
    /\ all_results = <<>>
    /\ errors_occurred = <<>>
    /\ skipped_files_count = 0
    /\ file_paths_for_tasks = <<>>
    /\ tasks = <<>>
    /\ task = <<>>
    /\ settle_order = <<>>
    /\ results = <<>>
    /\ displayed = <<>>
    /\ output_data = <<>>
    /\ exit_code = -1
    /\ cli = NoCommand

Init ==
    /\ model_name \in RunModelNames
    /\ api_keys \in {AllKeys, NoKeys}
    /\ env_keys = NoKeys
    /\ EmptyRun

\* Lines 102-110: the files found; none ends the run with exit code 1.
FindFiles ==
    /\ run_pc = "start"
    /\ \E found \in DistinctSeqs(Paths, MaxFiles) :
          /\ files_to_analyze' = found
          /\ IF found = <<>>
             THEN run_pc' = "exit" /\ exit_code' = 1 /\ idx' = idx
             ELSE run_pc' = "read" /\ exit_code' = exit_code /\ idx' = 1
    /\ UNCHANGED <<cli, model_name, api_keys, env_keys, contents, all_results, errors_occurred,
                   skipped_files_count, file_paths_for_tasks, tasks, task,
                   settle_order, results, displayed, output_data>>

\* Mutant: the text is tested without strip().
IsBlankUnstripped(text) == text = <<>>

\* Line 138: not solidity_code.strip()
IsBlank(text) == Strip(text) = <<>>

\* Mutant: a read error leaves the read loop (break for continue).
ReadFileStoppingAtError ==
    /\ run_pc = "read"
    /\ idx <= Len(files_to_analyze)
    /\ LET file_path == files_to_analyze[idx] IN
       \E read \in ReadOutcomes :
          /\ contents' = Append(contents, read)
          /\ IF ~read.ok
             THEN /\ errors_occurred' = DictSet(errors_occurred, file_path,
                                                   "Read error: e")
                  /\ skipped_files_count' = skipped_files_count + 1
                  /\ idx' = Len(files_to_analyze) + 1
                  /\ UNCHANGED <<tasks, file_paths_for_tasks>>
             ELSE IF IsBlank(read.text)
             THEN /\ errors_occurred' = DictSet(errors_occurred, file_path,
                                                   "Empty file")
                  /\ skipped_files_count' = skipped_files_count + 1
                  /\ idx' = idx + 1
                  /\ UNCHANGED <<tasks, file_paths_for_tasks>>
             ELSE /\ tasks' = Append(tasks, [solidity_code |-> read.text,
                                             file_name |-> file_path])
                  /\ file_paths_for_tasks' = Append(file_paths_for_tasks, file_path)
                  /\ idx' = idx + 1
                  /\ UNCHANGED <<errors_occurred, skipped_files_count>>
    /\ UNCHANGED <<cli, model_name, api_keys, env_keys, files_to_analyze, run_pc,
                   all_results, task, settle_order, results, displayed,
                   output_data, exit_code>>

\* Lines 135-170: one iteration of the read loop.
ReadFile ==
    /\ run_pc = "read"
    /\ idx <= Len(files_to_analyze)
    /\ LET file_path == files_to_analyze[idx] IN
       \E read \in ReadOutcomes :
          /\ contents' = Append(contents, read)
          /\ IF ~read.ok
             THEN /\ errors_occurred' = DictSet(errors_occurred, file_path,
                                                   "Read error: e")
                  /\ skipped_files_count' = skipped_files_count + 1
                  /\ UNCHANGED <<tasks, file_paths_for_tasks>>
             ELSE IF IsBlank(read.text)
             THEN /\ errors_occurred' = DictSet(errors_occurred, file_path,
                                                   "Empty file")
                  /\ skipped_files_count' = skipped_files_count + 1
                  /\ UNCHANGED <<tasks, file_paths_for_tasks>>
             ELSE /\ tasks' = Append(tasks, [solidity_code |-> read.text,
                                             file_name |-> file_path])
                  /\ file_paths_for_tasks' = Append(file_paths_for_tasks, file_path)
                  /\ UNCHANGED <<errors_occurred, skipped_files_count>>
    /\ idx' = idx + 1
    /\ UNCHANGED <<cli, model_name, api_keys, env_keys, files_to_analyze, run_pc,
                   all_results, task, settle_order, results, displayed,
                   output_data, exit_code>>

\* The indices of the coroutines that are done, in ascending order.
RECURSIVE DoneIndices(_, _)
DoneIndices(ts, i) ==
    IF i > Len(ts) THEN <<>>
    ELSE (IF ts[i].pc = "done" THEN <<i>> ELSE <<>>) \o DoneIndices(ts, i + 1)

\* Mutant: a cap of one on the tasks that run: the first coroutine is
\* started, the others wait for it.
StartGatherCapped ==
    /\ run_pc = "read"
    /\ idx > Len(files_to_analyze)
    /\ LET started == [i \in 1..Len(tasks) |->
                          IF i = 1 THEN StartTask(model_name, api_keys, env_keys)
                          ELSE [StartTask(model_name, api_keys, env_keys)
                                   EXCEPT !.pc = "queued", !.calls = 0]]
       IN  /\ task' = started
           /\ settle_order' = DoneIndices(started, 1)
    /\ run_pc' = IF tasks = <<>> THEN "display" ELSE "gather"
    /\ UNCHANGED <<cli, model_name, api_keys, env_keys, files_to_analyze, contents, idx,
                   all_results, errors_occurred, skipped_files_count,
                   file_paths_for_tasks, tasks, results, displayed, output_data,
                   exit_code>>

\* Lines 173-176: asyncio.gather wraps every coroutine in a task; the event
\* loop runs each of them, in creation order, up to its first suspension.
\* Without a task, line 174 skips the gather.
StartGather ==
    /\ run_pc = "read"
    /\ idx > Len(files_to_analyze)
    /\ LET started == [i \in 1..Len(tasks) |-> StartTask(model_name, api_keys, env_keys)]
       IN  /\ task' = started
           /\ settle_order' = DoneIndices(started, 1)
    /\ run_pc' = IF tasks = <<>> THEN "display" ELSE "gather"
    /\ UNCHANGED <<cli, model_name, api_keys, env_keys, files_to_analyze, contents, idx,
                   all_results, errors_occurred, skipped_files_count,
                   file_paths_for_tasks, tasks, results, displayed, output_data,
                   exit_code>>

\* Mutant: the task records its own outcome as soon as it is done.
BackendAnswersRecording(i, answers) ==
    /\ run_pc = "gather"
    /\ task[i].pc = "awaiting"
    /\ \E r \in answers :
          LET t == OnResponse(task[i], r)
              p == file_paths_for_tasks[i]
          IN  /\ task' = [task EXCEPT ![i] = t]
              /\ settle_order' = IF t.pc = "done" THEN Append(settle_order, i)
                                 ELSE settle_order
              /\ all_results' =
                    IF t.pc = "done" /\ t.exc = ""
                    THEN DictSet(all_results, p, [optimizations |-> t.ret])
                    ELSE all_results
              /\ errors_occurred' =
                    IF t.pc = "done" /\ t.exc # ""
                    THEN DictSet(errors_occurred, p, "Analysis error: e")
                    ELSE errors_occurred
    /\ UNCHANGED <<cli, model_name, api_keys, env_keys, files_to_analyze, contents, run_pc, idx,
                   skipped_files_count, file_paths_for_tasks, tasks, results,
                   displayed, output_data, exit_code>>

\* The backend answers the call of task i with one of `answers`.
BackendAnswers(i, answers) ==
    /\ run_pc = "gather"
    /\ task[i].pc = "awaiting"
    /\ \E r \in answers :
          LET t == OnResponse(task[i], r)
          IN  /\ task' = [task EXCEPT ![i] = t]
              /\ settle_order' = IF t.pc = "done" THEN Append(settle_order, i)
                                 ELSE settle_order
    /\ UNCHANGED <<cli, model_name, api_keys, env_keys, files_to_analyze, contents, run_pc, idx,
                   all_results, errors_occurred, skipped_files_count,
                   file_paths_for_tasks, tasks, results, displayed, output_data,
                   exit_code>>

BackendResponds(i) == BackendAnswers(i, BackendResponses(task[i].client_type))

\* Mutant: the attempt after a sleep calls the backend twice.
SleepDoneCallingTwice(i) ==
    /\ run_pc = "gather"
    /\ task[i].pc = "sleeping"
    /\ task' = [task EXCEPT ![i].pc = "awaiting", ![i].attempt = @ + 1,
                            ![i].calls = @ + 2]
    /\ UNCHANGED <<cli, model_name, api_keys, env_keys, files_to_analyze, contents, run_pc, idx,
                   all_results, errors_occurred, skipped_files_count,
                   file_paths_for_tasks, tasks, settle_order, results, displayed,
                   output_data, exit_code>>

\* Line 354 returns: the next iteration of the loop of line 281 calls again.
SleepDone(i) ==
    /\ run_pc = "gather"
    /\ task[i].pc = "sleeping"
    /\ task' = [task EXCEPT ![i].pc = "awaiting", ![i].attempt = @ + 1,
                            ![i].calls = @ + 1]
    /\ UNCHANGED <<cli, model_name, api_keys, env_keys, files_to_analyze, contents, run_pc, idx,
                   all_results, errors_occurred, skipped_files_count,
                   file_paths_for_tasks, tasks, settle_order, results, displayed,
                   output_data, exit_code>>

\* The value asyncio.gather(..., return_exceptions=True) holds for a task.
TaskResult(t) ==
    IF t.exc # "" THEN [kind |-> "exception", exc |-> t.exc, val |-> <<>>]
    ELSE [kind |-> "list", exc |-> "", val |-> t.ret]

\* Mutant: the results in the order the tasks finished in (as_completed).
GatherResultsAsCompleted(ts, order) ==
    [k \in 1..Len(ts) |-> IF k <= Len(order) THEN TaskResult(ts[order[k]])
                          ELSE TaskResult(ts[k])]

\* Line 176: the results, in the order of the awaitables, whatever the order
\* the tasks finished in.
GatherResults(ts, order) == [i \in 1..Len(ts) |-> TaskResult(ts[i])]

\* Lines 186-219: where one result goes.
ResultBranch(result) ==
    IF result.kind = "exception" /\ IsInstance(result.exc, {"Exception"})
    THEN "error"
    ELSE IF result.kind # "None" THEN "result"
    ELSE "failed"

\* Mutant: the i-th result is recorded under the i-th file found.
PathOfResultAmongAllFiles(paths, i) == files_to_analyze[i]

\* Mutant: the paths are taken from the end of the list.
PathOfResultFromEnd(paths, i) == paths[Len(paths) + 1 - i]

\* Line 180: the path the i-th result is recorded under.
PathOfResult(paths, i) == paths[i]

\* Mutant: an empty list of suggestions is not recorded.
RecordResultUnlessEmpty(dicts, result, file_path_str) ==
    LET branch == ResultBranch(result)
    IN  CASE branch = "error" ->
               [dicts EXCEPT !.errors = DictSet(@, file_path_str, "Analysis error: e")]
          [] branch = "result" /\ result.val # <<>> ->
               [dicts EXCEPT !.results =
                   DictSet(@, file_path_str, [optimizations |-> result.val])]
          [] OTHER -> dicts

\* Lines 186-219: one iteration of the result loop on the two dicts.
RecordResult(dicts, result, file_path_str) ==
    LET branch == ResultBranch(result)
    IN  CASE branch = "error" ->
               [dicts EXCEPT !.errors = DictSet(@, file_path_str, "Analysis error: e")]
          [] branch = "result" ->
               [dicts EXCEPT !.results =
                   DictSet(@, file_path_str, [optimizations |-> result.val])]
          [] OTHER ->
               [dicts EXCEPT !.errors =
                   DictSet(@, file_path_str, "Analysis failed (LLM error or no content)")]

\* Lines 179-220: the result loop, from result i on.
RECURSIVE RecordResults(_, _, _, _)
RecordResults(dicts, res, paths, i) ==
    IF i > Len(res) THEN dicts
    ELSE RecordResults(RecordResult(dicts, res[i], PathOfResult(paths, i)),
                       res, paths, i + 1)

\* Mutant: gather is over as soon as a task has raised (return_exceptions
\* left out).
GatherFailsFast == AllDone \/ \E i \in 1..Len(task) : Done(i) /\ task[i].exc # ""

\* Line 176: with return_exceptions=True gather is over when every task is.
GatherSettled == AllDone

\* Lines 176-220: gather returns once every task is done, and the loop
\* records every result.
GatherReturn ==
    /\ run_pc = "gather"
    /\ GatherSettled
    /\ LET res == GatherResults(task, settle_order)
           dicts == RecordResults([results |-> all_results, errors |-> errors_occurred],
                                  res, file_paths_for_tasks, 1)
       IN  /\ results' = res
           /\ all_results' = dicts.results
           /\ errors_occurred' = dicts.errors
    /\ run_pc' = "display"
    /\ UNCHANGED <<cli, model_name, api_keys, env_keys, files_to_analyze, contents, idx,
                   skipped_files_count, file_paths_for_tasks, tasks, task,
                   settle_order, displayed, output_data, exit_code>>

\* Line 248: the order the results are displayed in.
DisplayOrder(d) == SortedItems(d)

\* Lines 246-252: every list of all_results is handed, in the sorted order of
\* the paths, to display_results, which sorts it in place; the lists of
\* `results` are the same objects.  task[i].ret keeps the list as returned.
Display ==
    /\ run_pc = "display"
    /\ displayed' = [i \in 1..Len(all_results) |-> DisplayOrder(all_results)[i].key]
    /\ all_results' = [i \in 1..Len(all_results) |->
                          [key |-> all_results[i].key,
                           val |-> [optimizations |->
                                    display_results(all_results[i].val.optimizations)]]]
    /\ results' = [i \in 1..Len(results) |->
                      [results[i] EXCEPT !.val = display_results(@)]]
    /\ run_pc' = "save"
    /\ UNCHANGED <<cli, model_name, api_keys, env_keys, files_to_analyze, contents, idx,
                   errors_occurred, skipped_files_count, file_paths_for_tasks,
                   tasks, task, settle_order, output_data, exit_code>>

\* Lines 258-259: dict(sorted(d.items()))
SortedDict(d) == SortedItems(d)

\* Lines 258-272: the dict handed to json.dump.
OutputData(analyzed, res, errs) ==
    LET sorted_all_results == SortedDict(res)
        sorted_errors == SortedDict(errs)
    IN  [files_analyzed_count |-> Len(analyzed),
         files_with_results_count |-> Len(sorted_all_results),
         files_with_errors_count |-> Len(sorted_errors),
         results_by_file |-> sorted_all_results,
         errors_by_file |-> sorted_errors]

\* Lines 255-285: without an output file the run ends; with one the report is
\* built and written, and a failed write leaves with exit code 1.
Save ==
    /\ run_pc = "save"
    /\ \E output_file \in BOOLEAN, written \in BOOLEAN :
          IF ~output_file
          THEN /\ run_pc' = "done" /\ exit_code' = 0
               /\ UNCHANGED output_data
          ELSE /\ output_data' = <<OutputData(files_to_analyze, all_results,
                                              errors_occurred)>>
               /\ IF written THEN run_pc' = "done" /\ exit_code' = 0
                  ELSE run_pc' = "exit" /\ exit_code' = 1
    /\ UNCHANGED <<cli, model_name, api_keys, env_keys, files_to_analyze, contents, idx,
                   all_results, errors_occurred, skipped_files_count,
                   file_paths_for_tasks, tasks, task, settle_order, results,
                   displayed>>

Next ==
    \/ FindFiles
    \/ ReadFile
    \/ StartGather
    \/ \E i \in 1..Len(task) : BackendResponds(i)
    \/ \E i \in 1..Len(task) : SleepDone(i)
    \/ GatherReturn
    \/ Display
    \/ Save

Spec == Init /\ [][Next]_vars

----------------------------------------------------------------------------
(* A run of one readable file, from the moment its task awaits the first    *)
(* backend call: the state run_analysis is in after FindFiles, ReadFile and *)
(* StartGather.  The backend draws from every answer call_llm_api           *)
(* distinguishes, for each of the three providers.                          *)

OneFile == <<97>>
OneText == <<SPACE, 120, NEWLINE>>

AfterDispatch(name, keys) ==
    /\ model_name = name
    /\ api_keys = keys
    /\ env_keys = NoKeys
    /\ files_to_analyze = <<OneFile>>
    /\ contents = <<[ok |-> TRUE, text |-> OneText]>>
    /\ run_pc = "gather"
    /\ idx = 2
    /\ all_results = <<>>
    /\ errors_occurred = <<>>
    /\ skipped_files_count = 0
    /\ file_paths_for_tasks = <<OneFile>>
    /\ tasks = <<[solidity_code |-> OneText, file_name |-> OneFile]>>
    /\ task = <<StartTask(name, keys, NoKeys)>>
    /\ settle_order = <<>>
    /\ results = <<>>
    /\ displayed = <<>>
    /\ output_data = <<>>
    /\ exit_code = -1
    /\ cli = NoCommand

InitCall == \E name \in CallModelNames : AfterDispatch(name, AllKeys)

AnyAnswer(i) == BackendAnswers(i, AllBackendResponses(task[i].client_type))

NextCall ==
    \/ \E i \in 1..Len(task) : AnyAnswer(i)
    \/ \E i \in 1..Len(task) : SleepDone(i)
    \/ GatherReturn
    \/ Display
    \/ Save

SpecCall == InitCall /\ [][NextCall]_vars

(* The same run against a backend that raises, on every call, one of the   *)
(* errors the design calls transient: a rate limit, a generic API error, a  *)
(* connection failure, a timeout.                                           *)

TransientErrors(client_type) ==
    CASE client_type = "openai" ->
             {"OpenAIRateLimitError", "OpenAIAPIError", "OpenAIAPIConnectionError",
              "TimeoutError"}
      [] client_type = "gemini" ->
             {"GeminiResourceExhausted", "GeminiAPIError", "TimeoutError"}
      [] client_type = "anthropic" ->
             {"AnthropicRateLimitError", "AnthropicAPIError",
              "AnthropicAPIConnectionError", "TimeoutError"}
      [] OTHER -> {}

TransientAnswer(i) ==
    BackendAnswers(i, [kind : {"raise"}, text : {<<>>},
                       exc : TransientErrors(task[i].client_type)])

NextTransient ==
    \/ \E i \in 1..Len(task) : TransientAnswer(i)
    \/ \E i \in 1..Len(task) : SleepDone(i)
    \/ GatherReturn
    \/ Display
    \/ Save

SpecTransient == InitCall /\ [][NextTransient]_vars

----------------------------------------------------------------------------
(* A run of one file whose backend answered with a JSON list of suggestions *)
(* whose start_line is absent (null) or a line number, from the moment       *)
(* gather returned: display_results and the export act on the list.         *)

\* The start_line values of the lists: absent, zero, two line numbers, and
\* the integer the sort key stands in for an absent one.
LineValues == {None, PyInt(0), PyInt(1), PyInt(2), PyInt(maxsize)}

Desc(i) == CASE i = 1 -> "d1" [] i = 2 -> "d2" [] i = 3 -> "d3" [] i = 4 -> "d4"
             [] OTHER -> "d5"

\* The JSON lists of at most MaxSuggestions suggestions; the description of
\* a suggestion tells its position in the list.
SuggestionLists ==
    UNION {{[i \in 1..n |-> Suggestion(Desc(i), lines[i], lines[i])] :
               lines \in [1..n -> LineValues]} : n \in 0..MaxSuggestions}

AfterGather(items) ==
    LET name == <<"gpt-", "x">>
        answer == [kind |-> "text", text |-> <<Seg("json", PyList(items))>>, exc |-> ""]
        t == OnResponse(StartTask(name, AllKeys, NoKeys), answer)
        res == GatherResults(<<t>>, <<1>>)
        dicts == RecordResults([results |-> <<>>, errors |-> <<>>], res,
                               <<OneFile>>, 1)
    IN  /\ model_name = name
        /\ api_keys = AllKeys
        /\ env_keys = NoKeys
        /\ files_to_analyze = <<OneFile>>
        /\ contents = <<[ok |-> TRUE, text |-> OneText]>>
        /\ run_pc = "display"
        /\ idx = 2
        /\ all_results = dicts.results
        /\ errors_occurred = dicts.errors
        /\ skipped_files_count = 0
        /\ file_paths_for_tasks = <<OneFile>>
        /\ tasks = <<[solidity_code |-> OneText, file_name |-> OneFile]>>
        /\ task = <<t>>
        /\ settle_order = <<1>>
        /\ results = res
        /\ displayed = <<>>
        /\ output_data = <<>>
        /\ exit_code = -1
        /\ cli = NoCommand

InitDisplay == \E items \in SuggestionLists : AfterGather(items)

NextDisplay == Display \/ Save

SpecDisplay == InitDisplay /\ [][NextDisplay]_vars


----------------------------------------------------------------------------
(* A run of one file whose backend answers the first call with a text:      *)
(* parse_llm_json_output acts on it inside the task.  The texts are a JSON  *)
(* list alone, the list in a fence between prose, the list bare after       *)
(* prose, several lists in one text, a JSON document that is no list, and a *)
(* list of one suggestion for every kind of value a line field can hold.    *)

Fields(desc, change) ==
    [description |-> PyStr(desc), suggested_change |-> PyStr(change),
     safety_rationale |-> PyStr("safe")]

\* Suggestions as the prompt asks for them: with both lines, with no line
\* key, with a null line and an estimate, and with code in suggested_change.
WithLines == PyDict(Fields("d1", "change") @@ [start_line |-> PyInt(1), end_line |-> PyInt(2)])
NoLines == PyDict(Fields("d2", "change"))
NullLine ==
    PyDict(Fields("d3", "change")
              @@ [gas_saved_estimate |-> PyStr("low"), start_line |-> None,
                  end_line |-> PyInt(2)])
IndexInChange == PyDict(Fields("d4", "a[i]"))
NestedIndexInChange == PyDict(Fields("d5", "m[a[i]]"))
FenceInChange == PyDict(Fields("d6", "<fence>a[i]<fence>"))
\* Items the validation drops: a required key is missing; not an object.
MissingKey == PyDict([description |-> PyStr("d7"), suggested_change |-> PyStr("change")])
NotAnObject == PyInt(1)
\* An item whose required keys are all there, one of them holding no string.
NumberAsDescription ==
    PyDict([description |-> PyInt(5), suggested_change |-> PyStr("change"),
            safety_rationale |-> PyStr("safe")])

ParseItems ==
    {WithLines, NoLines, NullLine, IndexInChange, NestedIndexInChange,
     FenceInChange, MissingKey, NotAnObject, NumberAsDescription}

SeqsUpTo(S, n) == UNION {[1..k -> S] : k \in 0..n}

ItemLists == {PyList(l) : l \in SeqsUpTo(ParseItems, MaxItems)}

\* The values a line field is drawn from: every JSON type, integers of both
\* signs and zero, strings of digits and others.
LineInputs ==
    {None, PyInt(0), PyInt(3), PyInt(-1), PyFloat(5), PyBool(TRUE), PyStr("7"),
     PyStr("superscript-2"), PyStr("x"), PyList(<<>>), PyDict([a |-> PyInt(1)])}

LineTexts ==
    {<<Seg("json", PyList(<<PyDict(Fields("d8", "change")
                                      @@ [start_line |-> a, end_line |-> b])>>))>> :
        a \in LineInputs, b \in LineInputs}

\* JSON documents whose root is no list.
RootTexts ==
    {<<Seg("json", PyDict([optimizations |-> PyList(<<WithLines, NotAnObject>>)]))>>,
     <<Seg("json", PyDict([optimizations |-> PyInt(1)]))>>,
     <<Seg("json", PyDict([suggestions |-> PyList(<<WithLines>>)]))>>,
     <<Seg("json", PyInt(1))>>,
     <<Seg("json", None)>>,
     <<Prose>>,
     <<>>}

\* Texts of several lists, each bare or in a fence, prose between them or not.
ShortLists ==
    {PyList(l) : l \in SeqsUpTo({WithLines, NoLines, NestedIndexInChange,
                                 FenceInChange, MissingKey}, 1)}
ListSegs == {Seg(k, l) : k \in {"json", "fence"}, l \in ShortLists}
MultiTexts ==
    UNION {{t \in [1..n -> ListSegs \cup {Prose}] :
               /\ Cardinality({k \in 1..n : t[k] # Prose}) \in 2..MaxLists
               /\ \A k \in 1..(n - 1) : ~(t[k] = Prose /\ t[k + 1] = Prose)} :
            n \in 2..(MaxLists + 1)}

ParseTexts ==
    {<<Seg("json", l)>> : l \in ItemLists}
        \cup {<<Prose, Seg("fence", l), Prose>> : l \in ItemLists}
        \cup {<<Prose, Seg("json", l)>> : l \in ItemLists}
        \cup LineTexts \cup RootTexts \cup MultiTexts

InitParse == AfterDispatch(<<"gpt-", "x">>, AllKeys)

TextAnswer(i) == BackendAnswers(i, [kind : {"text"}, text : ParseTexts, exc : {""}])

NextParse ==
    \/ \E i \in 1..Len(task) : TextAnswer(i)
    \/ GatherReturn
    \/ Display
    \/ Save

SpecParse == InitParse /\ [][NextParse]_vars

----------------------------------------------------------------------------
(* A run of one readable file, from the end of the read loop: the gather    *)
(* starts the task, whose first step is get_client_details_for_model on the *)
(* model name and the keys of the run.                                      *)

RouterNames == UNION {[1..n -> Tokens] : n \in 1..MaxNameTokens}

\* The keys given on the command line: absent, empty or given, each provider
\* its own.
OverrideKeys ==
    [openai : {NoKey, "", "sk-o"}, google : {NoKey, "", "sk-g"},
     anthropic : {NoKey, "", "sk-a"}]
\* The keys config.py read from the environment.
EnvKeys ==
    [openai : {NoKey, "env-o"}, google : {NoKey, "env-g"}, anthropic : {NoKey, "env-a"}]
        \cup {[openai |-> "", google |-> "", anthropic |-> ""]}

AfterRead(name, keys, env) ==
    /\ model_name = name
    /\ api_keys = keys
    /\ env_keys = env
    /\ files_to_analyze = <<OneFile>>
    /\ contents = <<[ok |-> TRUE, text |-> OneText]>>
    /\ run_pc = "read"
    /\ idx = 2
    /\ all_results = <<>>
    /\ errors_occurred = <<>>
    /\ skipped_files_count = 0
    /\ file_paths_for_tasks = <<OneFile>>
    /\ tasks = <<[solidity_code |-> OneText, file_name |-> OneFile]>>
    /\ task = <<>>
    /\ settle_order = <<>>
    /\ results = <<>>
    /\ displayed = <<>>
    /\ output_data = <<>>
    /\ exit_code = -1
    /\ cli = NoCommand

InitRouter ==
    \E name \in RouterNames, keys \in OverrideKeys, env \in EnvKeys :
        AfterRead(name, keys, env)

NextRouter == StartGather

SpecRouter == InitRouter /\ [][NextRouter]_vars

----------------------------------------------------------------------------
(* Properties                                                               *)

PathOfTask(i) == file_paths_for_tasks[i]

\* The classes call_llm_api lists as authentication and bad-request errors.
FatalAnswer(r) ==
    r.kind = "raise" /\ r.exc \in auth_exceptions \cup bad_request_exceptions

\* The result loop of run_analysis has run.
Aggregated ==
    \/ run_pc \in {"save", "done"}
    \/ run_pc = "display" /\ (tasks = <<>> \/ results # <<>>)
    \/ run_pc = "exit" /\ output_data # <<>>

RECURSIVE SumSeq(_)
SumSeq(q) == IF q = <<>> THEN 0 ELSE Head(q) + SumSeq(Tail(q))

\* C1: when the backend answers the request of any artifact with an
\* authentication/permission denial or a bad-request error, the whole run ends
\* at once with a non-zero exit code: no outcome of a dispatched artifact is
\* recorded and no report is built.
C1_FatalAnswerEndsRun ==
    \A i \in 1..Len(task) :
        FatalAnswer(task[i].last) =>
            /\ run_pc \in {"gather", "exit"}
            /\ run_pc = "exit" => exit_code = 1
            /\ all_results = <<>>
            /\ output_data = <<>>

\* C2: a dispatched artifact for which call_llm_api returned None (retries
\* exhausted, or a failure that is not retried) is recorded in errors_occurred
\* with a reason and is not recorded in all_results.
C2_FailedInvocationIsFailed ==
    Aggregated =>
        \A i \in 1..Len(task) :
            task[i].llm_response = "None" =>
                /\ PathOfTask(i) \in DictKeys(errors_occurred)
                /\ PathOfTask(i) \notin DictKeys(all_results)

\* C3: against a backend that raises a transient error on every call,
\* call_llm_api makes LLM_MAX_RETRIES + 1 = 3 calls, sleeps
\* LLM_RETRY_DELAY_BASE * 2^k before retry k (2 then 4, 6 in all), does not
\* sleep after the last call, and returns None.
C3_TransientExhaustsRetries ==
    \A i \in 1..Len(task) :
        LET t == task[i] IN
        /\ t.calls <= LLM_MAX_RETRIES + 1
        /\ t.sleeps = [k \in 1..Len(t.sleeps) |-> LLM_RETRY_DELAY_BASE * Pow2(k - 1)]
        /\ t.pc = "awaiting" => Len(t.sleeps) = t.calls - 1
        /\ t.pc = "sleeping" => Len(t.sleeps) = t.calls
        /\ t.pc = "done" =>
              /\ t.calls = LLM_MAX_RETRIES + 1
              /\ t.calls = 3
              /\ t.sleeps = <<2, 4>>
              /\ SumSeq(t.sleeps) = 6
              /\ t.llm_response = "None"
              /\ t.exc = ""

C3_Witness ==
    /\ run_pc = "done"
    /\ \E i \in 1..Len(task) :
          /\ task[i].pc = "done"
          /\ task[i].calls = 3
          /\ task[i].sleeps = <<2, 4>>
          /\ task[i].last.exc \in TransientErrors(task[i].client_type)

\* C4: an authentication or bad-request error of any provider is not
\* retried: the call_llm_api that got it is over, and no backoff sleep
\* follows the failed call (so a first call that fails this way stays the
\* only one).
C4_FatalAnswerIsNotRetried ==
    \A i \in 1..Len(task) :
        FatalAnswer(task[i].last) =>
            /\ task[i].pc = "done"
            /\ Len(task[i].sleeps) < task[i].calls

\* C5: a file whose text is empty or whitespace only is recorded as skipped
\* with the reason "Empty file", gets no task, and no backend call is ever
\* made for it.
WhitespaceOnly(text) == \A k \in 1..Len(text) : text[k] \in Whitespace

C5_BlankFileIsSkipped ==
    \A n \in 1..Len(contents) :
        (contents[n].ok /\ WhitespaceOnly(contents[n].text)) =>
            LET p == files_to_analyze[n] IN
            /\ p \in DictKeys(errors_occurred)
            /\ DictGet(errors_occurred, p) = "Empty file"
            /\ p \notin DictKeys(all_results)
            /\ p \notin SeqToSet(file_paths_for_tasks)
            /\ \A j \in 1..Len(tasks) : tasks[j].file_name # p
            /\ Len(task) <= Len(file_paths_for_tasks)
            /\ \A j \in 1..Len(task) : PathOfTask(j) = p => task[j].calls = 0
            /\ output_data # <<>> =>
                  /\ p \in DictKeys(output_data[1].errors_by_file)
                  /\ DictGet(output_data[1].errors_by_file, p) = "Empty file"

C5_Witness ==
    /\ run_pc = "done"
    /\ output_data # <<>>
    /\ \E n \in 1..Len(contents) :
          /\ contents[n].ok
          /\ contents[n].text # <<>>
          /\ WhitespaceOnly(contents[n].text)
    /\ \E j \in 1..Len(task) : task[j].calls > 0


\* The run has left the gather.
PastGather == run_pc \in {"display", "save", "done"} \/ (run_pc = "exit" /\ files_to_analyze # <<>>)

NoDuplicateKeys(d) == Cardinality(DictKeys(d)) = Len(d)

\* C6: in the finished report the keys of results_by_file and of
\* errors_by_file are disjoint, and together they are the input files.
KeysPartition(res, errs) ==
    /\ DictKeys(res) \cap DictKeys(errs) = {}
    /\ DictKeys(res) \cup DictKeys(errs) = SeqToSet(files_to_analyze)
    /\ NoDuplicateKeys(res)
    /\ NoDuplicateKeys(errs)

C6_KeysPartitionInputs ==
    /\ Aggregated => KeysPartition(all_results, errors_occurred)
    /\ output_data # <<>> =>
          KeysPartition(output_data[1].results_by_file, output_data[1].errors_by_file)

C6_Witness ==
    /\ run_pc = "done"
    /\ output_data # <<>>
    /\ output_data[1].results_by_file # <<>>
    /\ output_data[1].errors_by_file # <<>>
    /\ skipped_files_count > 0
    /\ files_to_analyze[1] \in DictKeys(errors_occurred)

\* C7: once every task has settled, skipped + succeeded + failed is the
\* number of input files; in the exported metadata files_with_results_count +
\* files_with_errors_count = files_analyzed_count.
SucceededCount ==
    Cardinality({n \in 1..Len(files_to_analyze) :
                    files_to_analyze[n] \in DictKeys(all_results)})
FailedCount ==
    Cardinality({j \in 1..Len(tasks) : tasks[j].file_name \in DictKeys(errors_occurred)})

C7_CountsAddUp ==
    /\ Aggregated =>
          skipped_files_count + SucceededCount + FailedCount = Len(files_to_analyze)
    /\ output_data # <<>> =>
          /\ output_data[1].files_analyzed_count = Len(files_to_analyze)
          /\ output_data[1].files_with_results_count
                + output_data[1].files_with_errors_count
                = output_data[1].files_analyzed_count

C7_Witness ==
    /\ run_pc = "done"
    /\ output_data # <<>>
    /\ SucceededCount > 0
    /\ FailedCount > 0
    /\ \E i \in 1..Len(task) : task[i].exc = "" /\ task[i].ret = <<>>

\* C8: a task that fails (it raised, or its invocation failed) neither stops
\* nor cancels the other tasks: the run leaves the gather only when every
\* task is done, and every task's own outcome is in the report.
SameItems(a, b) == Len(a) = Len(b) /\ SeqToSet(a) = SeqToSet(b)

OwnOutcomeReported(i) ==
    LET p == tasks[i].file_name IN
    IF task[i].exc # ""
    THEN /\ p \in DictKeys(errors_occurred)
         /\ DictGet(errors_occurred, p) = "Analysis error: e"
         /\ p \notin DictKeys(all_results)
    ELSE /\ p \in DictKeys(all_results)
         /\ SameItems(DictGet(all_results, p).optimizations, task[i].ret)
         /\ p \notin DictKeys(errors_occurred)

C8_FailureDoesNotHaltOthers ==
    PastGather =>
        /\ Len(task) = Len(tasks)
        /\ \A i \in 1..Len(task) : Done(i)
        /\ Aggregated => \A i \in 1..Len(task) : OwnOutcomeReported(i)

\* Task j finished after task i.
FinishedAfter(j, i) ==
    \E a, b \in 1..Len(settle_order) :
        a < b /\ settle_order[a] = i /\ settle_order[b] = j

C8_Witness ==
    /\ run_pc = "done"
    /\ \E i, j \in 1..Len(task) :
          /\ task[i].exc # ""
          /\ task[j].exc = ""
          /\ task[j].ret # <<>>
          /\ task[j].calls > 1
          /\ FinishedAfter(j, i)
          /\ OwnOutcomeReported(j)

\* C9: the exported report does not depend on the order the tasks finished
\* in, nor on the order the files were found in: each file's entry is decided
\* by the file's text and by the last answer of the backend to the task
\* created for it, and both dicts are in ascending order of the paths.
Ascending(d) == \A k \in 1..(Len(d) - 1) : StrLess(d[k].key, d[k + 1].key)

ExpectedSuggestions(t) ==
    IF t.last.kind = "text"
    THEN display_results(parse_llm_json_output(t.last.text).val)
    ELSE <<>>

ReportedAsExpected(res, errs, n) ==
    LET p == files_to_analyze[n] IN
    IF ~contents[n].ok
    THEN /\ p \in DictKeys(errs) /\ DictGet(errs, p) = "Read error: e"
         /\ p \notin DictKeys(res)
    ELSE IF WhitespaceOnly(contents[n].text)
    THEN /\ p \in DictKeys(errs) /\ DictGet(errs, p) = "Empty file"
         /\ p \notin DictKeys(res)
    ELSE \E j \in 1..Len(tasks) :
            /\ tasks[j].file_name = p
            /\ IF task[j].exc # ""
               THEN /\ p \in DictKeys(errs)
                    /\ DictGet(errs, p) = "Analysis error: e"
                    /\ p \notin DictKeys(res)
               ELSE /\ p \in DictKeys(res)
                    /\ DictGet(res, p).optimizations = ExpectedSuggestions(task[j])
                    /\ p \notin DictKeys(errs)

C9_ReportIndependentOfOrder ==
    output_data # <<>> =>
        LET res == output_data[1].results_by_file
            errs == output_data[1].errors_by_file
        IN  /\ Ascending(res)
            /\ Ascending(errs)
            /\ DictKeys(res) \cup DictKeys(errs) \subseteq SeqToSet(files_to_analyze)
            /\ \A n \in 1..Len(files_to_analyze) : ReportedAsExpected(res, errs, n)

C9_Witness ==
    /\ run_pc = "done"
    /\ output_data # <<>>
    /\ Len(output_data[1].results_by_file) = 2
    /\ output_data[1].results_by_file[1].val # output_data[1].results_by_file[2].val
    /\ StrLess(files_to_analyze[2], files_to_analyze[1])
    /\ all_results[1].key = files_to_analyze[1]
    /\ settle_order = <<2, 1>>

\* C10: after display_results, the suggestions of a file are in ascending
\* order of start_line, every suggestion without a start_line comes after
\* every suggestion with one, and suggestions of equal start_line keep the
\* order they were extracted in; the exported lists are the same.
Position(l, x) == CHOOSE k \in 1..Len(l) : l[k] = x

OrderedByStartLine(l, extracted) ==
    \A a, b \in 1..Len(l) :
        a < b =>
            LET x == Get(l[a], "start_line")
                y == Get(l[b], "start_line")
            IN  /\ (x # None /\ y # None) => x.v <= y.v
                /\ ~(x = None /\ y # None)
                /\ x = y => Position(extracted, l[a]) < Position(extracted, l[b])

ExtractedFor(p) ==
    task[CHOOSE j \in 1..Len(tasks) : tasks[j].file_name = p].ret

C10_SuggestionsSortedByStartLine ==
    /\ run_pc \in {"save", "done", "exit"} =>
          \A k \in 1..Len(all_results) :
              /\ SameItems(all_results[k].val.optimizations,
                           ExtractedFor(all_results[k].key))
              /\ OrderedByStartLine(all_results[k].val.optimizations,
                                    ExtractedFor(all_results[k].key))
    /\ output_data # <<>> =>
          \A k \in 1..Len(output_data[1].results_by_file) :
              OrderedByStartLine(output_data[1].results_by_file[k].val.optimizations,
                                 ExtractedFor(output_data[1].results_by_file[k].key))


\* A suggestion object as the data model describes it: the three required
\* fields are non-empty strings, the estimate is a string when present, a
\* line is a positive integer when present (null counts as absent), and
\* start_line <= end_line when both are present.
IsLine(x) == x = None \/ (x.t = "int" /\ x.v > 0)

WellFormed(item) ==
    /\ item.t = "dict"
    /\ \A k \in {"description", "suggested_change", "safety_rationale"} :
          k \in DOMAIN item.v /\ item.v[k].t = "str" /\ item.v[k].v # ""
    /\ Get(item.v, "gas_saved_estimate").t \in {"null", "str"}
    /\ IsLine(Get(item.v, "start_line"))
    /\ IsLine(Get(item.v, "end_line"))
    /\ (Get(item.v, "start_line") # None /\ Get(item.v, "end_line") # None)
          => Get(item.v, "start_line").v <= Get(item.v, "end_line").v

WellFormedList(l) == l.t = "list" /\ \A k \in 1..Len(l.v) : WellFormed(l.v[k])

\* Task i got a text from the backend and is over.
Parsed(i) == task[i].pc = "done" /\ task[i].last.kind = "text"

\* The text is one JSON list of well-formed suggestion objects.
IsListAlone(text) ==
    Len(text) = 1 /\ text[1].seg = "json" /\ WellFormedList(text[1].val)

\* C11 as stated: for a text that is a JSON list of well-formed suggestion
\* objects, parse_llm_json_output returns exactly those objects, unchanged,
\* in the same order and the same number.
C11_RoundTripExact ==
    \A i \in 1..Len(task) :
        (Parsed(i) /\ IsListAlone(task[i].last.text)) =>
            /\ task[i].exc = ""
            /\ task[i].ret = [k \in 1..Len(task[i].last.text[1].val.v) |->
                                 task[i].last.text[1].val.v[k].v]

\* C11, amended: for such a text parse_llm_json_output returns as many
\* objects, in the same order, and each has the value it had for every field;
\* an object that has no start_line or no end_line key is returned with that
\* key set to null.
SameFields(out, in) ==
    /\ DOMAIN out = DOMAIN in \cup {"start_line", "end_line"}
    /\ \A k \in DOMAIN out : out[k] = Get(in, k)

C11_RoundTripUpToNullLines ==
    \A i \in 1..Len(task) :
        (Parsed(i) /\ IsListAlone(task[i].last.text)) =>
            LET items == task[i].last.text[1].val.v IN
            /\ task[i].exc = ""
            /\ Len(task[i].ret) = Len(items)
            /\ \A k \in 1..Len(items) : SameFields(task[i].ret[k], items[k].v)

C11_Witness ==
    /\ Parsed(1)
    /\ IsListAlone(task[1].last.text)
    /\ task[1].last.text[1].val.v = <<NoLines, WithLines>>
    /\ Len(task[1].ret) = 2
    /\ task[1].ret[2] = WithLines.v
    /\ task[1].ret[1] # NoLines.v

\* C12: for a JSON list L of well-formed suggestion objects, the text that
\* holds L in a JSON fence between prose gives the same result as L alone.
IsWrapped(text) ==
    /\ Len(text) = 3
    /\ text[1] = Prose /\ text[3] = Prose
    /\ text[2].seg = "fence" /\ WellFormedList(text[2].val)

C12_WrappingInvariance ==
    \A i \in 1..Len(task) :
        (Parsed(i) /\ IsWrapped(task[i].last.text)) =>
            LET alone == parse_llm_json_output(<<Seg("json", task[i].last.text[2].val)>>)
            IN  /\ task[i].exc = alone.raised
                /\ task[i].ret = alone.val

\* C13: for a text that is not JSON as a whole and holds several JSON lists,
\* in fences or bare, parse_llm_json_output returns the valid items of all
\* the lists in the order they appear, each once.
ListsOf(text) == SelectSeq(text, LAMBDA sg : sg.seg # "prose" /\ sg.val.t = "list")

RECURSIVE ItemsOf(_)
ItemsOf(segs) == IF segs = <<>> THEN <<>> ELSE Head(segs).val.v \o ItemsOf(Tail(segs))

HoldsSeveralLists(text) ==
    /\ ~JsonLoadsOk(text)
    /\ Len(ListsOf(text)) >= 2
    /\ \A k \in 1..Len(text) : text[k].seg = "prose" \/ text[k].val.t = "list"

C13_AllListsAreCollected ==
    \A i \in 1..Len(task) :
        (Parsed(i) /\ HoldsSeveralLists(task[i].last.text)) =>
            /\ task[i].exc = ""
            /\ task[i].ret = ValidateAll(ItemsOf(ListsOf(task[i].last.text))).val

\* C14: parse_llm_json_output raises no exception, whatever the text and
\* whatever JSON values its fields hold: the task that parsed a text ends
\* with a list.
C14_ParseNeverRaises ==
    \A i \in 1..Len(task) : Parsed(i) => task[i].exc = ""


\* The provider whose pattern list is the first, in the order Gemini, OpenAI,
\* Anthropic, to hold a pattern that occurs in the lowered name.
MatchesList(name, patterns) == \E pat \in patterns : Contains(Lower(name), pat)

FirstMatch(name) ==
    IF MatchesList(name, GEMINI_MODELS) THEN "gemini"
    ELSE IF MatchesList(name, OPENAI_MODELS) THEN "openai"
    ELSE IF MatchesList(name, ANTHROPIC_MODELS) THEN "anthropic"
    ELSE "<None>"

\* C15: get_client_details_for_model tries the Gemini patterns, then the
\* OpenAI patterns, then the Anthropic patterns; the first list that matches
\* gives the client type, also for a name a later list matches; a name no
\* list matches raises ValueError and gives no client.
C15_FirstMatchingListDecides ==
    \A i \in 1..Len(task) :
        /\ task[i].client_type = FirstMatch(model_name)
        /\ FirstMatch(model_name) = "<None>" =>
              /\ task[i].exc = "ValueError"
              /\ task[i].api_key = NoKey
              /\ task[i].calls = 0
        /\ task[i].exc = "" => task[i].client_type \in {"gemini", "openai", "anthropic"}

C15_Witness ==
    /\ Len(task) = 1
    /\ MatchesList(model_name, GEMINI_MODELS)
    /\ MatchesList(model_name, OPENAI_MODELS)
    /\ task[1].client_type = "gemini"
    /\ task[1].exc = ""
    /\ task[1].calls = 1

\* C16: the key of the matched provider is the override when one is given
\* (not None, not empty), else the key of the environment when that is given,
\* else ValueError is raised; so a client is never returned with an empty
\* key, and the keys of the two other providers play no part.
KeyOf(keys, client_type) ==
    CASE client_type = "gemini" -> keys.google
      [] client_type = "openai" -> keys.openai
      [] client_type = "anthropic" -> keys.anthropic
      [] OTHER -> NoKey

C16_OverrideThenEnvironment ==
    \A i \in 1..Len(task) :
        LET override == KeyOf(api_keys, task[i].client_type)
            default == KeyOf(env_keys, task[i].client_type)
        IN  /\ task[i].exc = "" => task[i].api_key \notin {NoKey, ""}
            /\ task[i].client_type # "<None>" =>
                  IF override \notin {NoKey, ""}
                  THEN task[i].exc = "" /\ task[i].api_key = override
                  ELSE IF default \notin {NoKey, ""}
                  THEN task[i].exc = "" /\ task[i].api_key = default
                  ELSE task[i].exc = "ValueError" /\ task[i].calls = 0

C16_Witness ==
    /\ Len(task) = 1
    /\ task[1].client_type = "anthropic"
    /\ api_keys = [openai |-> "sk-o", google |-> "", anthropic |-> "sk-a"]
    /\ env_keys = [openai |-> "env-o", google |-> "env-g", anthropic |-> "env-a"]
    /\ task[1].api_key = "sk-a"
    /\ task[1].exc = ""


\* C17: for the two files A.sol, whose text is not blank, and B.sol, which
\* is empty, and a backend that answers the literal text [], the exported
\* report has results_by_file = {A.sol: {optimizations: []}} and
\* errors_by_file = {B.sol: "Empty file"}.
FileA == <<97>>
FileB == <<98>>

EmptyListScenario ==
    /\ SeqToSet(files_to_analyze) = {FileA, FileB}
    /\ Len(contents) = 2
    /\ \A n \in 1..2 :
          /\ contents[n].ok
          /\ files_to_analyze[n] = FileA => ~WhitespaceOnly(contents[n].text)
          /\ files_to_analyze[n] = FileB => contents[n].text = <<>>
    /\ Len(task) = 1
    /\ task[1].last = [kind |-> "text", text |-> TextEmptyList, exc |-> ""]

C17_EmptyListIsSucceeded ==
    (EmptyListScenario /\ output_data # <<>>) =>
        /\ output_data[1].results_by_file =
              <<[key |-> FileA, val |-> [optimizations |-> <<>>]]>>
        /\ output_data[1].errors_by_file = <<[key |-> FileB, val |-> "Empty file"]>>
        /\ all_results = <<[key |-> FileA, val |-> [optimizations |-> <<>>]]>>
        /\ errors_occurred = <<[key |-> FileB, val |-> "Empty file"]>>

C17_Witness ==
    /\ EmptyListScenario
    /\ files_to_analyze = <<FileB, FileA>>
    /\ run_pc = "done"
    /\ output_data # <<>>
    /\ output_data[1].files_with_results_count = 1
    /\ output_data[1].files_with_errors_count = 1


\* C18: when the backend call returns an envelope whose text content is
\* empty or missing, call_llm_api calls no more and does not sleep: it
\* returns None after that call, whether it was the first or came after
\* retries.  (Reading the text of an envelope that has none may also raise
\* an exception of no library class, ValueError for Gemini's response.text:
\* the call then ends with typer.Exit, as little retried.)
C18_EmptyEnvelopeIsNotRetried ==
    \A i \in 1..Len(task) :
        /\ task[i].last.kind = "empty" =>
              /\ task[i].pc = "done"
              /\ task[i].llm_response = "None"
              /\ task[i].exc = ""
              /\ Len(task[i].sleeps) = task[i].calls - 1
              /\ task[i].calls = task[i].attempt + 1
        /\ (task[i].last.kind = "raise" /\ task[i].last.exc = "ValueError") =>
              /\ task[i].pc = "done"
              /\ task[i].exc = "Exit"
              /\ Len(task[i].sleeps) = task[i].calls - 1

C18_Witness ==
    /\ Len(task) = 1
    /\ task[1].last.kind = "empty"
    /\ task[1].calls = 1
    /\ task[1].sleeps = <<>>
    /\ task[1].pc = "done"
    /\ run_pc = "done"


----------------------------------------------------------------------------
(* The run from the moment the files are found, under the scheduling the   *)
(* code relies on: run_analysis goes on from one statement to the next, the *)
(* event loop resumes a task whose sleep is over, and every backend call    *)
(* returns or raises.  The backend answers with an empty JSON list, with an *)
(* envelope without text, with a rate limit or with an exception of no      *)
(* library class.                                                           *)

FoundInOrder == <<<<97>>, <<97, 97>>, <<98>>>>

InitLive ==
    /\ model_name \in RunModelNames
    /\ api_keys = AllKeys
    /\ env_keys = NoKeys
    /\ \E n \in 1..MaxFiles :
          /\ n <= Len(FoundInOrder)
          /\ files_to_analyze = SubSeq(FoundInOrder, 1, n)
    /\ contents = <<>>
    /\ run_pc = "read"
    /\ idx = 1
    /\ all_results = <<>>
    /\ errors_occurred = <<>>
    /\ skipped_files_count = 0
    /\ file_paths_for_tasks = <<>>
    /\ tasks = <<>>
    /\ task = <<>>
    /\ settle_order = <<>>
    /\ results = <<>>
    /\ displayed = <<>>
    /\ output_data = <<>>
    /\ exit_code = -1
    /\ cli = NoCommand

LiveAnswer(i) ==
    BackendAnswers(i, Answers({TextEmptyList},
                              (TransientErrors(task[i].client_type)
                                  \cap CommonErrors(task[i].client_type))
                                  \cup {"ValueError"}))

\* Task i goes on: its backend call is answered, or its sleep is over.
TaskStep(i) == i \in 1..Len(task) /\ (LiveAnswer(i) \/ SleepDone(i))

NextLive ==
    \/ ReadFile
    \/ StartGather
    \/ \E i \in 1..Len(task) : LiveAnswer(i)
    \/ \E i \in 1..Len(task) : SleepDone(i)
    \/ GatherReturn
    \/ Display
    \/ Save

Fairness ==
    /\ WF_vars(ReadFile)
    /\ WF_vars(StartGather)
    /\ \A i \in 1..MaxFiles : WF_vars(TaskStep(i))
    /\ WF_vars(GatherReturn)
    /\ WF_vars(Display)
    /\ WF_vars(Save)

SpecLive == InitLive /\ [][NextLive]_vars /\ Fairness

\* The task created for the n-th file found, 0 when it has none.
TaskOf(n) ==
    LET js == {j \in 1..Len(file_paths_for_tasks) :
                  file_paths_for_tasks[j] = files_to_analyze[n]}
    IN  IF js = {} THEN 0 ELSE CHOOSE j \in js : TRUE

\* Where the n-th file found stands.  Reading lies inside one iteration of
\* the read loop, which ends with the file skipped or with its coroutine
\* created.
ArtifactState(n) ==
    IF n > Len(contents) THEN "Pending"
    ELSE IF TaskOf(n) = 0 THEN "Skipped"
    ELSE IF TaskOf(n) > Len(task) THEN "Queued"
    ELSE LET t == task[TaskOf(n)]
         IN  CASE t.pc = "awaiting" -> "Requesting"
               [] t.pc = "sleeping" -> "Retrying"
               [] OTHER -> IF t.exc = "" /\ t.llm_response = "text"
                           THEN "Succeeded" ELSE "Failed"

Terminal(n) == ArtifactState(n) \in {"Skipped", "Succeeded", "Failed"}

\* The steps of the state machine, a state staying what it is included.
MachineStep(from, to) ==
    \/ from = to
    \/ from = "Pending" /\ to \in {"Skipped", "Queued"}
    \/ from = "Queued" /\ to = "Requesting"
    \/ from = "Requesting" /\ to \in {"Retrying", "Succeeded", "Failed"}
    \/ from = "Retrying" /\ to = "Requesting"

\* The provider of the run cannot be resolved: no list matches the model
\* name, or the matching provider has no key.
Unresolved ==
    get_client_details_for_model(model_name, api_keys.openai, api_keys.google,
                                 api_keys.anthropic, env_keys).raised # ""

FollowsMachine ==
    \A n \in 1..Len(files_to_analyze') :
        MachineStep(ArtifactState(n), ArtifactState(n)')

FollowsMachineOrUnresolved ==
    \A n \in 1..Len(files_to_analyze') :
        \/ MachineStep(ArtifactState(n), ArtifactState(n)')
        \/ /\ Unresolved
           /\ ArtifactState(n) = "Queued"
           /\ ArtifactState(n)' = "Failed"
           /\ task'[TaskOf(n)'].calls = 0

EveryArtifactEnds ==
    \A n \in 1..MaxFiles :
        (n <= Len(files_to_analyze)) ~> (n <= Len(files_to_analyze) /\ Terminal(n))

\* C19 as stated: every file follows Pending, Reading, then Skipped or
\* Queued, Requesting, any number of (Retrying, Requesting), then Succeeded
\* or Failed, and, every backend call returning, ends in one of Skipped,
\* Succeeded, Failed and stays there.
C19_ArtifactStateMachine == [][FollowsMachine]_vars /\ EveryArtifactEnds

\* C19: every file follows Pending, Reading, then Skipped or Queued,
\* Requesting, any number of (Retrying, Requesting), then Succeeded or
\* Failed, or, when the provider of the run cannot be resolved, goes from
\* Queued to Failed with no request made; every backend call returning, it
\* ends in one of Skipped, Succeeded, Failed and stays there.
C19_ArtifactStateMachineOrUnresolved ==
    [][FollowsMachineOrUnresolved]_vars /\ EveryArtifactEnds

C19_Witness ==
    /\ run_pc = "done"
    /\ Len(files_to_analyze) = 2
    /\ ArtifactState(1) = "Skipped"
    /\ ArtifactState(2) = "Succeeded"
    /\ task[TaskOf(2)].calls > 1


\* The paths with an entry in one of the two dicts.
WrittenKeys(res, errs) == DictKeys(res) \cup DictKeys(errs)

\* No entry is removed or written a second time (display_results sorts the
\* list of an entry in place, which writes no entry).
EntriesKept ==
    /\ Len(all_results') >= Len(all_results)
    /\ Len(errors_occurred') >= Len(errors_occurred)
    /\ \A k \in 1..Len(all_results) :
          /\ all_results'[k].key = all_results[k].key
          /\ SameItems(all_results'[k].val.optimizations,
                       all_results[k].val.optimizations)
    /\ \A k \in 1..Len(errors_occurred) : errors_occurred'[k] = errors_occurred[k]

\* Every new entry is under a path of its own that had none.
NewEntriesOncePerPath ==
    /\ NoDuplicateKeys(all_results')
    /\ NoDuplicateKeys(errors_occurred')
    /\ DictKeys(all_results') \cap DictKeys(errors_occurred') = {}

WritesBetweenTasks ==
    \A p \in WrittenKeys(all_results', errors_occurred')
                \ WrittenKeys(all_results, errors_occurred) :
        /\ p \in SeqToSet(files_to_analyze)
        /\ IF p \in SeqToSet(file_paths_for_tasks')
           THEN /\ run_pc = "gather"
                /\ Len(task) = Len(tasks)
                /\ \A i \in 1..Len(task) : task[i].pc = "done"
                /\ task' = task
           ELSE /\ run_pc = "read"
                /\ task = <<>>
                /\ task' = <<>>
                /\ DictGet(errors_occurred', p) \in {"Empty file", "Read error: e"}

\* C20: the two dicts of outcomes are written by run_analysis alone, once
\* per file: the entry of a skipped file before any task starts, the entry
\* of a dispatched file after every task is done, none while a task is
\* running, and once the result loop is over every file has its one entry.
C20_OutcomesWrittenOnceByOrchestrator ==
    [][/\ EntriesKept
       /\ NewEntriesOncePerPath
       /\ WritesBetweenTasks
       /\ run_pc' \in {"display", "save", "done"} =>
             WrittenKeys(all_results', errors_occurred') = SeqToSet(files_to_analyze)
      ]_vars

C20_Witness ==
    /\ run_pc = "display"
    /\ Len(task) = 1
    /\ task[1].calls > 1
    /\ settle_order = <<1>>
    /\ Len(errors_occurred) = 1
    /\ errors_occurred[1].val = "Read error: e"
    /\ Len(all_results) = 1
    /\ all_results[1].val.optimizations # <<>>


\* The read loop is over.
ReadLoopOver == run_pc \notin {"start", "read"} \/ idx > Len(files_to_analyze)

\* C21: a file whose read raised is skipped with the reason "Read error: "
\* and what the exception says, no coroutine is created for it, and the
\* run goes on: every file found is read, and each later file with text in
\* it gets its coroutine and, once gather has started, its task.
C21_ReadErrorIsSkippedAndRunGoesOn ==
    \A n \in 1..Len(contents) :
        ~contents[n].ok =>
            /\ files_to_analyze[n] \in DictKeys(errors_occurred)
            /\ DictGet(errors_occurred, files_to_analyze[n]) = "Read error: e"
            /\ files_to_analyze[n] \notin DictKeys(all_results)
            /\ files_to_analyze[n] \notin SeqToSet(file_paths_for_tasks)
            /\ ReadLoopOver => Len(contents) = Len(files_to_analyze)
            /\ run_pc = "exit" => output_data # <<>>
            /\ \A m \in (n + 1)..Len(contents) :
                  (contents[m].ok /\ ~IsBlank(contents[m].text)) =>
                      /\ files_to_analyze[m] \in SeqToSet(file_paths_for_tasks)
                      /\ run_pc \notin {"start", "read"} =>
                            Len(task) = Len(file_paths_for_tasks)

C21_Witness ==
    /\ run_pc = "save"
    /\ Len(files_to_analyze) = 2
    /\ ~contents[1].ok
    /\ contents[2].ok
    /\ file_paths_for_tasks = <<files_to_analyze[2]>>
    /\ Len(task) = 1
    /\ task[1].llm_response = "text"
    /\ errors_occurred = <<[key |-> files_to_analyze[1], val |-> "Read error: e"]>>
    /\ Len(all_results) = 1


\* The whole text is a JSON document whose root is neither a list nor an
\* object with a list under "optimizations".
RootIsNoList(text) ==
    /\ JsonLoadsOk(text)
    /\ text[1].val.t # "list"
    /\ ~(/\ text[1].val.t = "dict"
         /\ "optimizations" \in DOMAIN text[1].val.v
         /\ text[1].val.v["optimizations"].t = "list")

\* C22: for a text that is a JSON document whose root is neither a list nor
\* an object with a list under "optimizations", parse_llm_json_output goes
\* on to the pattern scan: it returns the validated items of the lists the
\* pattern finds in the text.
C22_NonListRootFallsThroughToScan ==
    \A i \in 1..Len(task) :
        (Parsed(i) /\ RootIsNoList(task[i].last.text)) =>
            /\ task[i].exc = ""
            /\ task[i].ret = ValidateAll(RegexCandidates(task[i].last.text)).val


\* An item the design keeps: an object whose three required fields are
\* present and hold strings.
RequiredStrings(item) ==
    /\ item.t = "dict"
    /\ \A k \in {"description", "suggested_change", "safety_rationale"} :
          k \in DOMAIN item.v /\ item.v[k].t = "str"

\* The text is one JSON list.
IsOneList(text) == JsonLoadsOk(text) /\ text[1].val.t = "list"

\* C23: of the items of a JSON list, parse_llm_json_output returns those
\* that are objects with description, suggested_change and safety_rationale
\* present and of string type, in their order, and no other item.
C23_KeptIffRequiredStrings ==
    \A i \in 1..Len(task) :
        (Parsed(i) /\ IsOneList(task[i].last.text) /\ task[i].exc = "") =>
            LET items == task[i].last.text[1].val.v
                kept == SelectSeq(items, RequiredStrings)
            IN  /\ Len(task[i].ret) = Len(kept)
                /\ \A k \in 1..Len(kept) :
                      \A f \in DOMAIN kept[k].v \ {"start_line", "end_line"} :
                          f \in DOMAIN task[i].ret[k] /\ task[i].ret[k][f] = kept[k].v[f]


\* A line field as the design coerces it: an int, a float or a string of
\* digits gives the integer, anything else null.
CoercedByDesign(x) ==
    CASE x.t = "int" -> PyInt(x.v)
      [] x.t = "float" -> PyInt(x.v)
      [] x.t = "str" /\ x.v \in DigitStrings -> PyInt(StrInt(x.v))
      [] OTHER -> None

\* C24: in every suggestion parse_llm_json_output returns, start_line and
\* end_line are the integer of the input value when that is an int, a float
\* or a string of digits, and null for any other value or an absent key.
C24_LinesCoercedToIntegers ==
    \A i \in 1..Len(task) :
        (Parsed(i) /\ IsOneList(task[i].last.text) /\ task[i].exc = "") =>
            LET kept == SelectSeq(task[i].last.text[1].val.v, ValidItem)
            IN  \A k \in 1..Len(task[i].ret) :
                    k <= Len(kept) =>
                        \A f \in {"start_line", "end_line"} :
                            task[i].ret[k][f] = CoercedByDesign(Get(kept[k].v, f))


\* The suggestions recorded in the outcomes of the run.
OutcomeSuggestions ==
    UNION {SeqToSet(all_results[k].val.optimizations) : k \in 1..Len(all_results)}

\* C25: in every suggestion recorded in an outcome that has both a
\* start_line and an end_line, start_line <= end_line.
C25_StartLineNotAfterEndLine ==
    \A x \in OutcomeSuggestions :
        (Get(x, "start_line") # None /\ Get(x, "end_line") # None) =>
            Get(x, "start_line").v <= Get(x, "end_line").v

\* C26: in every suggestion recorded in an outcome, start_line and end_line
\* are each null or a positive integer.
C26_LinesNullOrPositive ==
    \A x \in OutcomeSuggestions :
        IsLine(Get(x, "start_line")) /\ IsLine(Get(x, "end_line"))


----------------------------------------------------------------------------
(* A run of one to MaxFiles readable files, from the end of the read loop,  *)
(* for a model name of each of the three providers.                         *)

AllRead(name, keys, n) ==
    /\ model_name = name
    /\ api_keys = keys
    /\ env_keys = NoKeys
    /\ files_to_analyze = SubSeq(FoundInOrder, 1, n)
    /\ contents = [k \in 1..n |-> [ok |-> TRUE, text |-> OneText]]
    /\ run_pc = "read"
    /\ idx = n + 1
    /\ all_results = <<>>
    /\ errors_occurred = <<>>
    /\ skipped_files_count = 0
    /\ file_paths_for_tasks = SubSeq(FoundInOrder, 1, n)
    /\ tasks = [k \in 1..n |-> [solidity_code |-> OneText, file_name |-> FoundInOrder[k]]]
    /\ task = <<>>
    /\ settle_order = <<>>
    /\ results = <<>>
    /\ displayed = <<>>
    /\ output_data = <<>>
    /\ exit_code = -1
    /\ cli = NoCommand

InitProviders ==
    \E name \in CallModelNames, n \in 1..MaxFiles :
        n <= Len(FoundInOrder) /\ AllRead(name, AllKeys, n)

NextProviders ==
    \/ StartGather
    \/ \E i \in 1..Len(task) : LiveAnswer(i)
    \/ \E i \in 1..Len(task) : SleepDone(i)
    \/ GatherReturn
    \/ Display
    \/ Save

SpecProviders == InitProviders /\ [][NextProviders]_vars

Backends == {"openai", "gemini", "anthropic"}

\* The calls task i has made to backend b: line 283, 305 or 323 picks the
\* backend of every call from client_type.
CallsTo(i, b) == IF task[i].client_type = b THEN task[i].calls ELSE 0

\* C27: every attempt of a task makes one backend call; the calls of every
\* task of the run all go to one of the three backends, the one the router
\* gives for the model name of the run, and what a call raises comes from
\* that backend's library.
C27_OneCallPerAttemptToRoutedBackend ==
    \A i \in 1..Len(task) :
        /\ FirstMatch(model_name) \in Backends
        /\ CallsTo(i, FirstMatch(model_name)) = task[i].attempt + 1
        /\ \A b \in Backends \ {FirstMatch(model_name)} : CallsTo(i, b) = 0
        /\ Len(task[i].sleeps) \in {task[i].attempt, task[i].attempt + 1}
        /\ task[i].pc = "awaiting" => Len(task[i].sleeps) = task[i].attempt
        /\ task[i].last.kind = "raise" =>
              task[i].last.exc
                  \in LibraryErrors(FirstMatch(model_name)) \cup {"ValueError"}
        /\ \A j \in 1..Len(task) : task[j].client_type = task[i].client_type

C27_Witness ==
    /\ run_pc = "gather"
    /\ Len(task) = 2
    /\ FirstMatch(model_name) = "anthropic"
    /\ task[1].pc = "awaiting"
    /\ task[1].attempt = 2
    /\ CallsTo(1, "anthropic") = 3
    /\ task[2].pc = "done"
    /\ CallsTo(2, "anthropic") = 1


\* The files read so far that hold text, in the order they were read.
RECURSIVE EligibleRead(_)
EligibleRead(n) ==
    IF n = 0 THEN <<>>
    ELSE EligibleRead(n - 1)
            \o (IF contents[n].ok /\ ~WhitespaceOnly(contents[n].text)
                THEN <<files_to_analyze[n]>> ELSE <<>>)

\* Every dispatched task is awaiting its backend call.
AllAwaiting == \A i \in 1..Len(task) : task[i].pc = "awaiting" /\ task[i].calls = 1

\* C28: the coroutines created are those of the files read that hold text,
\* one each and none for a skipped file; gather starts them all together,
\* whatever their number: when the provider is resolved, the step that
\* starts them leaves every one of them awaiting its backend call.
C28_OneTaskEachAllStartedTogether ==
    [][/\ file_paths_for_tasks' = EligibleRead(Len(contents))'
       /\ Len(tasks') = Len(file_paths_for_tasks')
       /\ \A k \in 1..Len(tasks') : tasks'[k].file_name = file_paths_for_tasks'[k]
       /\ Len(task') \in {0, Len(tasks')}
       /\ (run_pc = "read" /\ run_pc' # "read") =>
             /\ Len(task') = Len(tasks)
             /\ ~Unresolved' => AllAwaiting'
      ]_vars

C28_Witness ==
    /\ run_pc = "gather"
    /\ Len(files_to_analyze) = MaxFiles
    /\ Len(task) = MaxFiles
    /\ AllAwaiting


\* The name the router gives for the name `name` under the keys of the run,
\* and the client it goes with.
Resolve(name) ==
    get_client_details_for_model(name, api_keys.openai, api_keys.google,
                                 api_keys.anthropic, env_keys)

\* C29: for a resolved model, the name the task calls with is the name of
\* the run with "models/" put in front when the client is Gemini and the
\* name does not start with it, and the name of the run itself otherwise;
\* so a Gemini name always starts with "models/", resolving the name given
\* back gives the same name and client again, and an OpenAI or Anthropic
\* name is the name of the run.
C29_ModelsPrefixOnlyForGeminiWhenMissing ==
    \A i \in 1..Len(task) :
        task[i].exc = "" =>
            /\ task[i].client_type = "gemini" =>
                  /\ SubSeq(task[i].model_name, 1, 1) = <<"models/">>
                  /\ task[i].model_name =
                        IF SubSeq(model_name, 1, 1) = <<"models/">>
                        THEN model_name ELSE <<"models/">> \o model_name
            /\ task[i].client_type \in {"openai", "anthropic"} =>
                  task[i].model_name = model_name
            /\ Resolve(task[i].model_name).raised = ""
            /\ Resolve(task[i].model_name).model_name = task[i].model_name
            /\ Resolve(task[i].model_name).client_type = task[i].client_type

C29_Witness ==
    /\ Len(task) = 1
    /\ task[1].exc = ""
    /\ task[1].client_type = "gemini"
    /\ model_name = <<"Models/", "gemini-">>
    /\ task[1].model_name = <<"models/", "Models/", "gemini-">>


----------------------------------------------------------------------------
(* The run of one task against a backend that may answer anything, every    *)
(* call of which returns or raises and every sleep of which ends.           *)

\* Task i goes on: its call is answered with any answer, or its sleep is over.
CallStep(i) == i \in 1..Len(task) /\ (AnyAnswer(i) \/ SleepDone(i))

SpecCallFair ==
    InitCall /\ [][NextCall]_vars /\ \A i \in 1..MaxFiles : WF_vars(CallStep(i))

\* What call_llm_api ended with: a text, None, or an exception.
CallResults(t) ==
    {k \in {"text", "None", "raised"} :
        \/ k = "text" /\ t.llm_response = "text"
        \/ k = "None" /\ t.llm_response = "None"
        \/ k = "raised" /\ t.llm_response = "" /\ t.exc # ""}

CallWithinBounds ==
    \A i \in 1..Len(task) :
        /\ task[i].calls <= LLM_MAX_RETRIES + 1
        /\ Len(task[i].sleeps) <= LLM_MAX_RETRIES
        /\ Done(i) <=> Cardinality(CallResults(task[i])) = 1
        /\ ~Done(i) => CallResults(task[i]) = {}

\* C30: whatever the backend answers, call by call, call_llm_api makes at
\* most LLM_MAX_RETRIES + 1 calls and sleeps at most LLM_MAX_RETRIES times,
\* and, every call returning or raising, it ends, with one result: a text,
\* None or an exception, which it keeps.
C30_CallEndsWithinRetryBudget ==
    /\ []CallWithinBounds
    /\ [][\A i \in 1..Len(task) : Done(i) => task'[i] = task[i]]_vars
    /\ \A i \in 1..MaxFiles : (i <= Len(task)) ~> (i <= Len(task) /\ Done(i))

C30_Witness ==
    /\ Len(task) = 1
    /\ Done(1)
    /\ task[1].calls = LLM_MAX_RETRIES + 1
    /\ Len(task[1].sleeps) = LLM_MAX_RETRIES
    /\ CallResults(task[1]) = {"text"}
    /\ task[1].exc = ""


\* The file the i-th coroutine was created for: the i-th of the files read
\* that hold text.
ArtifactOfTask(i) == EligibleRead(Len(contents))[i]

\* The entry under path p is the outcome of task i, and of no other kind.
RecordedUnder(p, i) ==
    IF task[i].exc # ""
    THEN /\ p \in DictKeys(errors_occurred)
         /\ DictGet(errors_occurred, p) = "Analysis error: e"
         /\ p \notin DictKeys(all_results)
    ELSE /\ p \in DictKeys(all_results)
         /\ SameItems(DictGet(all_results, p).optimizations, task[i].ret)
         /\ p \notin DictKeys(errors_occurred)

\* C31: once the result loop is over, the outcome of the i-th task is the
\* entry of the file its coroutine was created for, whatever the order the
\* tasks finished in and whichever files before it were skipped, and a
\* skipped file has its skip reason and nothing else.
C31_OutcomeUnderOwnArtifact ==
    Aggregated =>
        LET eligible == EligibleRead(Len(contents))
        IN  /\ Len(task) = Len(eligible)
            /\ \A i \in 1..Len(task) :
                  /\ tasks[i].file_name = eligible[i]
                  /\ file_paths_for_tasks[i] = eligible[i]
                  /\ ArtifactOfTask(i) = eligible[i]
                  /\ RecordedUnder(eligible[i], i)
            /\ \A n \in 1..Len(contents) :
                  files_to_analyze[n] \notin SeqToSet(eligible) =>
                      /\ files_to_analyze[n] \notin DictKeys(all_results)
                      /\ files_to_analyze[n] \in DictKeys(errors_occurred)
                      /\ DictGet(errors_occurred, files_to_analyze[n])
                            = (IF contents[n].ok THEN "Empty file" ELSE "Read error: e")

C31_Witness ==
    /\ run_pc = "done"
    /\ Len(files_to_analyze) = 2
    /\ contents[1].ok
    /\ WhitespaceOnly(contents[1].text)
    /\ Len(task) = 1
    /\ ArtifactOfTask(1) = files_to_analyze[2]
    /\ task[1].ret # <<>>
    /\ DictKeys(all_results) = {files_to_analyze[2]}
    /\ DictKeys(errors_occurred) = {files_to_analyze[1]}


\* C32: when no pattern list matches the model name of the run, or the
\* matched provider has no key, no task calls a backend or sleeps, each
\* ends with the ValueError of the router, the run goes on to its end with
\* exit code 0 (1 only for a report that could not be written), every file
\* that got a task is in errors_occurred with "Analysis error: " and the
\* exception, and every skipped file keeps its skip reason.
C32_UnresolvedProviderFailsEveryTask ==
    (Unresolved /\ files_to_analyze # <<>>) =>
        /\ \A i \in 1..Len(task) :
              /\ task[i].calls = 0
              /\ task[i].sleeps = <<>>
              /\ task[i].last = NoResponse
              /\ task[i].pc = "done"
              /\ task[i].exc = "ValueError"
        /\ run_pc = "exit" => output_data # <<>>
        /\ run_pc = "done" => exit_code = 0
        /\ all_results = <<>>
        /\ Aggregated =>
              /\ Len(task) = Len(tasks)
              /\ \A n \in 1..Len(files_to_analyze) :
                    /\ files_to_analyze[n] \in DictKeys(errors_occurred)
                    /\ DictGet(errors_occurred, files_to_analyze[n]) =
                          (IF ~contents[n].ok THEN "Read error: e"
                           ELSE IF WhitespaceOnly(contents[n].text) THEN "Empty file"
                           ELSE "Analysis error: e")
              /\ output_data # <<>> =>
                    /\ output_data[1].results_by_file = <<>>
                    /\ Len(output_data[1].errors_by_file) = Len(files_to_analyze)

C32_Witness ==
    /\ run_pc = "done"
    /\ model_name = <<"gpt-", "x">>
    /\ api_keys = NoKeys
    /\ Len(files_to_analyze) = 2
    /\ ~contents[1].ok
    /\ Len(task) = 1
    /\ task[1].exc = "ValueError"
    /\ output_data # <<>>
    /\ output_data[1].files_with_errors_count = 2


\* The exception is of none of the classes call_llm_api names.
Unclassified(e) ==
    ~IsInstance(e, retryable_exceptions \cup auth_exceptions
                       \cup bad_request_exceptions)

\* C33: when a backend call raises an exception of none of the retryable,
\* authentication or bad-request classes, call_llm_api calls no more and
\* does not sleep after it: the task ends with the typer.Exit raised for
\* it, and its file is recorded in errors_occurred, not in all_results.
C33_UnclassifiedExceptionIsNotRetried ==
    \A i \in 1..Len(task) :
        (task[i].last.kind = "raise" /\ Unclassified(task[i].last.exc)) =>
            /\ task[i].pc = "done"
            /\ task[i].exc = "Exit"
            /\ task[i].llm_response = ""
            /\ task[i].calls = task[i].attempt + 1
            /\ Len(task[i].sleeps) = task[i].attempt
            /\ Aggregated =>
                  /\ file_paths_for_tasks[i] \notin DictKeys(all_results)
                  /\ file_paths_for_tasks[i] \in DictKeys(errors_occurred)
                  /\ DictGet(errors_occurred, file_paths_for_tasks[i])
                        = "Analysis error: e"

C33_Witness ==
    /\ run_pc = "done"
    /\ Len(task) = 1
    /\ task[1].last.kind = "raise"
    /\ task[1].last.exc = "ValueError"
    /\ task[1].calls = 2
    /\ Len(task[1].sleeps) = 1
    /\ all_results = <<>>
    /\ Len(errors_occurred) = 1

----------------------------------------------------------------------------
(* cli.analyze: the command that sends the files to the Mythra API.  Its    *)
(* locals are the fields of cli; run_analysis does not run beside it.       *)

run_vars == <<model_name, api_keys, env_keys, files_to_analyze, contents, run_pc,
              idx, all_results, errors_occurred, skipped_files_count,
              file_paths_for_tasks, tasks, task, settle_order, results,
              displayed, output_data, exit_code>>

\* list.sort() of Path objects with distinct one-part names: by the name.
SortedPaths(found) ==
    CHOOSE s \in [1..Len(found) -> SeqToSet(found)] :
        /\ SeqToSet(s) = SeqToSet(found)
        /\ \A i, j \in 1..Len(s) : i < j => StrLess(s[i], s[j])

\* A body that response.json() cannot decode.
InvalidJson == [t |-> "invalid", v |-> 0]

\* One entry of the results list as display_results expects it, and the
\* lists the API may answer with; an entry need not be an object.
FileResult == PyDict(<<[key |-> "path", val |-> PyStr(<<97>>)],
                       [key |-> "findings", val |-> PyList(<<>>)]>>)
ResultLists == {<<>>, <<FileResult>>, <<PyInt(1)>>}

ResponseBodies ==
    {PyDict(<<[key |-> "results", val |-> PyList(l)]>>) : l \in ResultLists}
        \cup {PyDict(<<[key |-> "results", val |-> PyInt(1)]>>),
              PyDict(<<[key |-> "detail", val |-> PyStr(<<120>>)]>>),
              PyList(<<PyStr(<<120>>)>>), PyInt(1), None, InvalidJson}

\* The two statuses the command tells apart, and one of all the others.
HTTP_OK == 200
HTTP_UNPROCESSABLE == 422
HTTP_SERVER_ERROR == 500

\* What requests.post does: it returns a response, or raises.
PostOutcomes ==
    [kind : {"response"}, status_code : {HTTP_OK}, body : ResponseBodies]
        \cup [kind : {"response"},
              status_code : {HTTP_UNPROCESSABLE, HTTP_SERVER_ERROR},
              body : {PyDict(<<[key |-> "detail", val |-> PyStr(<<120>>)]>>),
                      InvalidJson}]
        \cup [kind : {"RequestException", "Exception"}, status_code : {0},
              body : {None}]

\* "results" in response_data and isinstance(response_data["results"], list),
\* for a decoded body that is a dict.
HasResultsList(body) ==
    /\ body.t = "dict"
    /\ "results" \in DictKeys(body.v)
    /\ DictGet(body.v, "results").t = "list"

\* The results a response carries, <<>> when it carries none.
ResultsOf(r) ==
    IF r.kind = "response" /\ HasResultsList(r.body)
    THEN DictGet(r.body.v, "results").v ELSE <<>>

\* The try block around requests.post, taking the status alone for the
\* body's shape.
ErrorOccurredByStatusAlone(r) ==
    ~(r.kind = "response" /\ r.status_code = HTTP_OK)

\* error_occurred after the try block around requests.post: False only for
\* status 200 with a body that decodes to a dict holding a results list.  A
\* body that does not decode raises JSONDecodeError; on a decoded list or
\* string the membership test is false, on a number or null it raises
\* TypeError, caught by the last handler.
ErrorOccurred(r) ==
    IF r.kind # "response" THEN TRUE
    ELSE IF r.status_code = HTTP_OK
         THEN IF r.body = InvalidJson THEN TRUE
              ELSE ~HasResultsList(r.body)
    ELSE TRUE

\* display_results calls .get on every entry: an entry that is no object
\* raises AttributeError.
DisplayRaises(analysis_results) ==
    \E k \in 1..Len(analysis_results) : analysis_results[k].t # "dict"

\* The search, the sort, and the exit when nothing was found.
CliSearch ==
    /\ cli.pc = "start"
    /\ \E found \in DistinctSeqs(Paths, MaxFiles) :
          cli' = [cli EXCEPT !.solidity_files_paths = SortedPaths(found),
                             !.idx = 1,
                             !.pc = IF found = <<>> THEN "exit" ELSE "read",
                             !.exit_code = IF found = <<>> THEN 1 ELSE @]
    /\ UNCHANGED run_vars

\* One turn of the loop that reads the files: a file that cannot be read or
\* is blank is skipped, every other one is added to contracts_data.
CliReadFile ==
    /\ cli.pc = "read"
    /\ cli.idx <= Len(cli.solidity_files_paths)
    /\ \E read \in ReadOutcomes :
          LET file_path == cli.solidity_files_paths[cli.idx]
              kept == read.ok /\ Strip(read.text) # <<>>
          IN  cli' = [cli EXCEPT
                  !.contents = Append(@, read),
                  !.idx = @ + 1,
                  !.contracts_data =
                      IF kept THEN Append(@, [path |-> file_path,
                                              content |-> read.text])
                      ELSE @,
                  !.files_to_process_paths =
                      IF kept THEN Append(@, file_path) ELSE @]
    /\ UNCHANGED run_vars

\* After the loop: exit when contracts_data is empty, else the one
\* requests.post and the handling of what it returns or raises.
CliPost ==
    /\ cli.pc = "read"
    /\ cli.idx > Len(cli.solidity_files_paths)
    /\ IF cli.contracts_data = <<>>
       THEN cli' = [cli EXCEPT !.pc = "exit", !.exit_code = 1]
       ELSE \E r \in PostOutcomes :
               cli' = [cli EXCEPT
                   !.requests = Append(@, [contracts |-> cli.contracts_data]),
                   !.response = r,
                   !.error_occurred = ErrorOccurred(r),
                   !.analysis_results = ResultsOf(r),
                   !.pc = IF ErrorOccurred(r) THEN "exit" ELSE "display",
                   !.exit_code = IF ErrorOccurred(r) THEN 1 ELSE @]
    /\ UNCHANGED run_vars

\* display_results; an exception it raises ends the command with status 1
\* before anything is saved.
CliDisplay ==
    /\ cli.pc = "display"
    /\ IF DisplayRaises(cli.analysis_results)
       THEN cli' = [cli EXCEPT !.pc = "exit", !.exit_code = 1]
       ELSE cli' = [cli EXCEPT !.displayed = TRUE, !.pc = "save"]
    /\ UNCHANGED run_vars

\* The output file, when one was asked for; a failure to write it is only
\* reported.
CliSave ==
    /\ cli.pc = "save"
    /\ \E written \in BOOLEAN :
          cli' = [cli EXCEPT
              !.output_data =
                  IF cli.output_file /\ written
                  THEN <<[files_analyzed_count |-> Len(cli.files_to_process_paths),
                          files_analyzed_paths |-> cli.files_to_process_paths,
                          results |-> cli.analysis_results]>>
                  ELSE @,
              !.pc = "done",
              !.exit_code = 0]
    /\ UNCHANGED run_vars

InitAnalyze ==
    /\ model_name = <<"x">>
    /\ api_keys = NoKeys
    /\ env_keys = NoKeys
    /\ files_to_analyze = <<>>
    /\ contents = <<>>
    /\ run_pc = "idle"
    /\ idx = 0
    /\ all_results = <<>>
    /\ errors_occurred = <<>>
    /\ skipped_files_count = 0
    /\ file_paths_for_tasks = <<>>
    /\ tasks = <<>>
    /\ task = <<>>
    /\ settle_order = <<>>
    /\ results = <<>>
    /\ displayed = <<>>
    /\ output_data = <<>>
    /\ exit_code = -1
    /\ \E output_file \in BOOLEAN :
          cli = [NoCommand EXCEPT !.pc = "start", !.output_file = output_file]

NextAnalyze ==
    \/ CliSearch
    \/ CliReadFile
    \/ CliPost
    \/ CliDisplay
    \/ CliSave

SpecAnalyze == InitAnalyze /\ [][NextAnalyze]_vars

\* The files of the run that were read and are not blank, as payload entries.
RECURSIVE ReadableNonEmpty(_)
ReadableNonEmpty(n) ==
    IF n = 0 THEN <<>>
    ELSE IF cli.contents[n].ok /\ ~WhitespaceOnly(cli.contents[n].text)
         THEN Append(ReadableNonEmpty(n - 1),
                     [path |-> cli.solidity_files_paths[n],
                      content |-> cli.contents[n].text])
    ELSE ReadableNonEmpty(n - 1)

CliReadLoopOver ==
    /\ cli.pc \in {"read", "display", "save", "done", "exit"}
    /\ Len(cli.contents) = Len(cli.solidity_files_paths)

\* The request returned status 200 with a results list.
ReturnedResults ==
    /\ cli.response.kind = "response"
    /\ cli.response.status_code = HTTP_OK
    /\ cli.response.body.t = "dict"
    /\ \E k \in 1..Len(cli.response.body.v) :
          /\ cli.response.body.v[k].key = "results"
          /\ cli.response.body.v[k].val.t = "list"

\* C34: cli.analyze sends at most one request, and the request carries
\* every file that was read and is not empty (a file of whitespace alone is
\* what the command reports as an empty file); when there is no such file
\* it sends none and exits with code 1; results are displayed and the
\* output file is written only after a request that returned status 200
\* with a results list, and after any other outcome of the request the
\* command exits with code 1 with nothing displayed and nothing written.
C34_OneRequestResultsOnlyOnSuccess ==
    /\ Len(cli.requests) <= 1
    /\ \A k \in 1..Len(cli.requests) :
          /\ Len(cli.contents) = Len(cli.solidity_files_paths)
          /\ cli.requests[k].contracts = ReadableNonEmpty(Len(cli.contents))
          /\ cli.requests[k].contracts # <<>>
    /\ (/\ cli.pc \in {"display", "save", "done", "exit"}
        /\ CliReadLoopOver
        /\ ReadableNonEmpty(Len(cli.contents)) = <<>>) =>
          /\ cli.requests = <<>>
          /\ cli.pc = "exit"
          /\ cli.exit_code = 1
    /\ (cli.displayed \/ cli.output_data # <<>>) =>
          /\ Len(cli.requests) = 1
          /\ ReturnedResults
    /\ (Len(cli.requests) = 1 /\ ~ReturnedResults) =>
          /\ cli.pc = "exit"
          /\ cli.exit_code = 1
          /\ ~cli.displayed
          /\ cli.output_data = <<>>
    /\ cli.output_data # <<>> =>
          /\ cli.output_data[1].results = ResultsOf(cli.response)
          /\ cli.output_data[1].files_analyzed_count = Len(cli.requests[1].contracts)

C34_Witness ==
    /\ cli.pc = "done"
    /\ cli.exit_code = 0
    /\ Len(cli.solidity_files_paths) = 2
    /\ ~cli.contents[1].ok
    /\ Len(cli.requests) = 1
    /\ Len(cli.requests[1].contracts) = 1
    /\ cli.displayed
    /\ cli.output_data # <<>>
    /\ cli.output_data[1].results = <<FileResult>>

\* The other side of C34: a request was sent and did not return results.
C34_WitnessFailedRequest ==
    /\ cli.pc = "exit"
    /\ Len(cli.requests) = 1
    /\ cli.response.status_code = HTTP_OK
    /\ cli.response.body.t = "dict"
    /\ ~ReturnedResults

====
